---------------------------- MODULE Spec2Model ----------------------------
(***************************************************************************)
(* A model of the structural wire codec of minecraft/protocol: item        *)
(* stacks, recipe ingredients, entity links, enchantments, skins and the   *)
(* packets built from them.  Buffers are sequences of bytes (0..255); a    *)
(* reader is an operator from a buffer and the caller's output value to a  *)
(* result record holding the error kind, the output value as the call left *)
(* it, the unread rest of the buffer, the primitive reads performed and    *)
(* the sizes passed to make().                                             *)
(***************************************************************************)
EXTENDS Integers, Sequences, FiniteSets, TLC

VARIABLES
    codec,  \* the codec this run exercises: which type x has
    src,    \* the read buffer: the bytes not yet consumed by a reader
    dst,    \* the write buffer: the bytes emitted by writers so far
    x,      \* the value the caller holds (written from, or decoded into)
    err,    \* the error kind the last call returned ("nil" for success)
    hist,   \* the calls made so far, oldest first: [op, err, wire], wire
            \* being the bytes the call consumed or produced
    pre,    \* src, dst and x as they were just before the last call
    log,    \* the primitive reads the last reader call performed, in order
    alloc,  \* the lengths the last reader call passed to make(), in order
    registeredPackets,  \* package packet: ID -> constructor registered by the user
    PacketsByName,      \* package packet: type name -> the type its function creates
    heap,   \* the packets and maps of the pools returned: heap[a] is 0 while the
            \* object at address a holds its zero value, else the pool it was
            \* filled through
    pools,  \* the pools NewPool has returned, oldest first
    pc,     \* per caller of the registry: the call it is in the middle of
    calls,  \* the Register calls made, oldest first: <<id, constructor>>
    fault   \* whether calls on registeredPackets have overlapped, and the fatal
            \* error of the runtime if it detected them

codecVars == <<codec, src, dst, x, err, hist, pre, log, alloc>>
registryVars == <<registeredPackets, PacketsByName, heap, pools, pc, calls, fault>>
vars == <<codecVars, registryVars>>

-----------------------------------------------------------------------------
(* Fixed-width integer conversions.                                        *)

Pow2(n) == 2 ^ n

\* int16(v): the two's complement truncation of v to 16 bits.
ToInt16(v) == ((v + 32768) % 65536) - 32768

\* a | b on two 16-bit patterns (0..65535), bit by bit.
RECURSIVE Or16(_, _, _)
Or16(a, b, n) ==
    IF n = 0 THEN 0
    ELSE (IF a % 2 = 1 \/ b % 2 = 1 THEN 1 ELSE 0)
         + 2 * Or16(a \div 2, b \div 2, n - 1)

\* int32(a) | int32(b) for a, b of type int16.  Both operands are sign
\* extended from 16 bits, so bits 16..31 of the result repeat bit 15 of the
\* 16-bit OR: the result is the sign extension of that 16-bit OR.
OrInt16AsInt32(a, b) == ToInt16(Or16(a % 65536, b % 65536, 16))

-----------------------------------------------------------------------------
(* Primitive readers and writers (reader.go / writer.go of the package).   *)

\* F(e) with e evaluated once: the value of e is bound before F uses it.
Bind(e, F(_)) == CHOOSE y \in {F(r) : r \in {e}} : TRUE

\* The collection limits of the package.
higherLimit == 65536
lowerLimit == 512

Res(e, v, rest) == [err |-> e, val |-> v, rest |-> rest]

\* The 7-bit groups of a LEB128 number read from b, at most max bytes: the
\* read stops at the first byte with a clear high bit; running out of bytes
\* is EOF, max bytes all carrying the continuation bit is an overflow.
RECURSIVE Groups(_, _, _)
Groups(b, max, acc) ==
    IF max = 0 THEN Res("Overflow", acc, b)
    ELSE IF b = <<>> THEN Res("EOF", acc, b)
    ELSE IF Head(b) < 128 THEN Res("nil", Append(acc, Head(b)), Tail(b))
    ELSE Bind(<<Tail(b), Append(acc, Head(b) % 128)>>,
              LAMBDA t : Groups(t[1], max - 1, t[2]))

\* The unsigned value of groups g, least significant first; group 5 of a
\* 32-bit number keeps only the 4 bits that fit (uint32(b&0x7f) << 28).
RECURSIVE GroupValue(_, _)
GroupValue(g, i) ==
    IF i > Len(g) THEN 0
    ELSE (IF i = 5 THEN g[i] % 16 ELSE g[i]) * Pow2(7 * (i - 1))
         + GroupValue(g, i + 1)

\* ux >> 1 of the same groups, computed without forming ux.
RECURSIVE GroupHalf(_, _)
GroupHalf(g, i) ==
    IF i > Len(g) THEN 0
    ELSE (IF i = 1 THEN g[1] \div 2
          ELSE (IF i = 5 THEN g[i] % 16 ELSE g[i]) * Pow2(7 * (i - 1) - 1))
         + GroupHalf(g, i + 1)

\* Zig-zag decoding: x = ux >> 1, complemented when ux is odd.
UnZigZag(g) ==
    IF g[1] % 2 = 1 THEN -(GroupHalf(g, 1)) - 1 ELSE GroupHalf(g, 1)

Varuint32(b) ==
    Bind(Groups(b, 5, <<>>), LAMBDA r :
        IF r.err # "nil" THEN Res(r.err, 0, r.rest)
        ELSE Res("nil", GroupValue(r.val, 1), r.rest))

Varint32(b) ==
    Bind(Groups(b, 5, <<>>), LAMBDA r :
        IF r.err # "nil" THEN Res(r.err, 0, r.rest)
        ELSE Res("nil", UnZigZag(r.val), r.rest))

Varint64(b) ==
    Bind(Groups(b, 10, <<>>), LAMBDA r :
        IF r.err # "nil" THEN Res(r.err, 0, r.rest)
        ELSE Res("nil", UnZigZag(r.val), r.rest))

\* The minimal LEB128 bytes of the unsigned number u.
RECURSIVE WriteUvarint(_)
WriteUvarint(u) ==
    IF u < 128 THEN <<u>>
    ELSE <<128 + (u % 128)>> \o WriteUvarint(u \div 128)

\* Zig-zag encoding: (n << 1) XOR (n >> k-1).
ZigZag(n) == IF n >= 0 THEN 2 * n ELSE -(2 * n) - 1

WriteVaruint32(u) == WriteUvarint(u)
WriteVarint32(n) == WriteUvarint(ZigZag(n))
WriteVarint64(n) == WriteUvarint(ZigZag(n))

\* The first n elements of b (all of b when it is shorter), and the rest.
Take(b, n) == SubSeq(b, 1, IF n < Len(b) THEN n ELSE Len(b))
Drop(b, n) == SubSeq(b, (IF n < Len(b) THEN n ELSE Len(b)) + 1, Len(b))

\* binary.Read of a fixed-width value of n bytes: reading nothing is EOF,
\* reading fewer than n bytes is an unexpected EOF, and the bytes that were
\* there are consumed either way.
ReadFixed(b, n) ==
    IF b = <<>> THEN Res("EOF", <<>>, b)
    ELSE IF Len(b) < n THEN Res("UnexpectedEOF", <<>>, <<>>)
    ELSE Res("nil", Take(b, n), Drop(b, n))

\* A little-endian int16 from two bytes, and back.
Int16LE(bs) == ToInt16(bs[1] + 256 * bs[2])
WriteInt16LE(v) == <<(v % 65536) % 256, (v % 65536) \div 256>>

\* String: a varuint32 length and that many raw bytes; a buffer holding
\* fewer bytes is drained and the read fails.
String(b) ==
    Bind(Varuint32(b), LAMBDA l :
        IF l.err # "nil" THEN Res(l.err, <<>>, l.rest)
        ELSE IF Len(l.rest) < l.val THEN Res("Malformed", <<>>, <<>>)
        ELSE Res("nil", Take(l.rest, l.val), Drop(l.rest, l.val)))

WriteString(s) == WriteVaruint32(Len(s)) \o s

-----------------------------------------------------------------------------
(* NBT compounds (package nbt), as far as item stacks carry them: a        *)
(* compound is a tag byte 10, a name, then entries (tag, name, payload)    *)
(* up to a lone End tag 0.  Names are u16 length-prefixed; the payloads    *)
(* modelled are those of Byte (1), Short (2) and Int (4 bytes, tag 3).     *)

NBTPayloadLen(tag) == CASE tag = 1 -> 1 [] tag = 2 -> 2 [] tag = 3 -> 4 [] OTHER -> 0

NBTName(b) ==
    Bind(ReadFixed(b, 2), LAMBDA l :
        IF l.err # "nil" THEN Res("NBT", <<>>, l.rest)
        ELSE IF Len(l.rest) < l.val[1] + 256 * l.val[2] THEN Res("NBT", <<>>, <<>>)
        ELSE Res("nil", Take(l.rest, l.val[1] + 256 * l.val[2]),
                 Drop(l.rest, l.val[1] + 256 * l.val[2])))

RECURSIVE NBTEntries(_, _)
NBTEntries(b, acc) ==
    IF b = <<>> THEN Res("NBT", acc, b)
    ELSE IF Head(b) = 0 THEN Res("nil", acc, Tail(b))
    ELSE IF Head(b) \notin {1, 2, 3} THEN Res("NBT", acc, Tail(b))
    ELSE Bind(NBTName(Tail(b)), LAMBDA nm :
             IF nm.err # "nil" THEN Res("NBT", acc, nm.rest)
             ELSE IF Len(nm.rest) < NBTPayloadLen(Head(b)) THEN Res("NBT", acc, <<>>)
             ELSE Bind(<<Drop(nm.rest, NBTPayloadLen(Head(b))),
                         Append(acc, [tag |-> Head(b), name |-> nm.val,
                                      payload |-> Take(nm.rest, NBTPayloadLen(Head(b)))])>>,
                       LAMBDA t : NBTEntries(t[1], t[2])))

\* Decoding one compound from b into a map (here: its entries in order).
NBTDecode(b) ==
    IF b = <<>> THEN Res("NBT", <<>>, b)
    ELSE IF Head(b) # 10 THEN Res("NBT", <<>>, Tail(b))
    ELSE Bind(NBTName(Tail(b)), LAMBDA nm :
             IF nm.err # "nil" THEN Res("NBT", <<>>, nm.rest)
             ELSE NBTEntries(nm.rest, <<>>))

RECURSIVE NBTWriteEntries(_)
NBTWriteEntries(es) ==
    IF es = <<>> THEN <<0>>
    ELSE <<Head(es).tag, Len(Head(es).name) % 256, Len(Head(es).name) \div 256>>
         \o Head(es).name \o Head(es).payload \o NBTWriteEntries(Tail(es))

\* Encoding a map as one unnamed compound.
NBTMarshal(es) == <<10, 0, 0>> \o NBTWriteEntries(es)

-----------------------------------------------------------------------------
(* Item stacks (item.go).                                                  *)

\* The result of a reader call: the error kind, the caller's value as the
\* call left it, the unread bytes, the primitive reads and the make() sizes.
Ret(e, v, rest, lg, al) ==
    [err |-> e, x |-> v, rest |-> rest, log |-> lg, alloc |-> al]

\* One primitive read, as the log keeps it: the field it was made for, the
\* value and error it returned and the number of bytes it consumed from b.
Rd(f, r, b) == [f |-> f, v |-> r.val, e |-> r.err, n |-> Len(b) - Len(r.rest)]

\* r, and when r succeeded the reader F run on what r left.
Then(r, F(_, _)) ==
    Bind(r, LAMBDA p :
        IF p.err # "nil" THEN p
        ELSE Bind(F(p.rest, p.x), LAMBDA n :
                 [n EXCEPT !.log = p.log \o n.log, !.alloc = p.alloc \o n.alloc]))

Times(n, v) == [i \in 1..n |-> v]

\* A slice: its length and the elements stored so far, in order from the
\* first; the elements after them hold the zero value of the element type.
Make(n) == [len |-> n, elems |-> <<>>]
NilSlice == Make(0)
Slice(list) == [len |-> Len(list), elems |-> list]
Elements(s, zero) == s.elems \o Times(s.len - Len(s.elems), zero)

\* The zero ItemStack.
ZeroItem ==
    [NetworkID |-> 0, MetadataValue |-> 0, Count |-> 0, NBTData |-> <<>>,
     CanBePlacedOn |-> NilSlice, CanBreak |-> NilSlice]

shieldID == 513

\* The count taken from the whole aux value.
AuxCountWhole(auxValue) == ToInt16(auxValue)

\* x.MetadataValue = int16(auxValue >> 8); x.Count = int16(auxValue & 0xff)
AuxMetadata(auxValue) == ToInt16(auxValue \div 256)
AuxCount(auxValue) == ToInt16(auxValue % 256)

\* The fields an air stack is left with.
AirItem(v) ==
    [v EXCEPT !.MetadataValue = 0, !.Count = 0, !.CanBePlacedOn = NilSlice,
              !.CanBreak = NilSlice]

\* The network ID of the stack, and the air case that ends the read.
ItemNetworkID(b, v) ==
    Bind(Varint32(b), LAMBDA id :
        IF id.err # "nil"
        THEN Ret(id.err, [v EXCEPT !.NBTData = <<>>], id.rest, <<Rd("NetworkID", id, b)>>, <<>>)
        ELSE IF id.val = 0
        THEN Ret("nil", AirItem([v EXCEPT !.NBTData = <<>>, !.NetworkID = 0]), id.rest,
                 <<Rd("NetworkID", id, b)>>, <<>>)
        ELSE Ret("nil", [v EXCEPT !.NBTData = <<>>, !.NetworkID = id.val], id.rest,
                 <<Rd("NetworkID", id, b)>>, <<>>))

\* The aux value, split into metadata and count.
ItemAuxValue(b, v) ==
    Bind(Varint32(b), LAMBDA a :
        IF a.err # "nil" THEN Ret(a.err, v, a.rest, <<Rd("auxValue", a, b)>>, <<>>)
        ELSE Ret("nil", [v EXCEPT !.MetadataValue = AuxMetadata(a.val),
                                  !.Count = AuxCount(a.val)],
                 a.rest, <<Rd("auxValue", a, b)>>, <<>>))

\* The compound announced by marker -1: a count byte that must be 1, then
\* one compound decoded from the buffer.
ItemNBTCompound(b, v) ==
    Bind(ReadFixed(b, 1), LAMBDA c :
        IF c.err # "nil" THEN Ret(c.err, v, c.rest, <<Rd("nbtCount", c, b)>>, <<>>)
        ELSE IF c.val[1] # 1
        THEN Ret("Malformed", v, c.rest, <<Rd("nbtCount", c, b)>>, <<>>)
        ELSE Bind(NBTDecode(c.rest), LAMBDA d :
                 Ret(d.err, [v EXCEPT !.NBTData = d.val], d.rest,
                     <<Rd("nbtCount", c, b), Rd("NBTData", d, c.rest)>>, <<>>)))

\* Item with every positive marker refused.
ItemNBTLegacyRefused(b, v, legacyNBTLength) == Ret("Malformed", v, b, <<>>, <<>>)

\* The compound announced by a positive marker: the next legacyNBTLength
\* bytes of the buffer (fewer when it is shorter), decoded as one compound.
ItemNBTLegacy(b, v, legacyNBTLength) ==
    Bind(NBTDecode(Take(b, legacyNBTLength)), LAMBDA d :
        Ret(d.err, [v EXCEPT !.NBTData = d.val], Drop(b, legacyNBTLength),
            <<[f |-> "NBTData", v |-> d.val, e |-> d.err,
               n |-> Len(b) - Len(Drop(b, legacyNBTLength))]>>, <<>>))

\* The NBT marker and what it announces.
ItemNBT(b, v) ==
    Bind(ReadFixed(b, 2), LAMBDA m :
        IF m.err # "nil" THEN Ret(m.err, v, m.rest, <<Rd("legacyNBTLength", m, b)>>, <<>>)
        ELSE IF Int16LE(m.val) = 0
        THEN Ret("nil", v, m.rest, <<Rd("legacyNBTLength", m, b)>>, <<>>)
        ELSE IF Int16LE(m.val) = -1
        THEN Then(Ret("nil", v, m.rest, <<Rd("legacyNBTLength", m, b)>>, <<>>),
                  ItemNBTCompound)
        ELSE IF Int16LE(m.val) < 0
        THEN Ret("Malformed", v, m.rest, <<Rd("legacyNBTLength", m, b)>>, <<>>)
        ELSE Then(Ret("nil", v, m.rest, <<Rd("legacyNBTLength", m, b)>>, <<>>),
                  LAMBDA b2, v2 : ItemNBTLegacy(b2, v2, Int16LE(m.val))))

\* The loop  for i < count { String(src, &list[i]) }  from element i on:
\* the list as the loop left it and the String calls made.
RECURSIVE ReadStrings(_, _, _, _, _)
ReadStrings(b, list, i, f, lg) ==
    IF i > list.len THEN [err |-> "nil", list |-> list, rest |-> b, log |-> lg]
    ELSE Bind(String(b), LAMBDA s :
             IF s.err # "nil"
             THEN [err |-> s.err, list |-> list, rest |-> s.rest,
                   log |-> Append(lg, Rd(f, s, b))]
             ELSE Bind(<<[list EXCEPT !.elems = Append(@, s.val)], Append(lg, Rd(f, s, b))>>,
                       LAMBDA t : ReadStrings(s.rest, t[1], i + 1, f, t[2])))

\* x.list = make([]string, count), then the loop over it.
MakeAndReadStrings(b, count, f, lg) ==
    Bind(Make(count), LAMBDA list : ReadStrings(b, list, 1, f, lg))

\* The same check with the comparison against higherLimit left out.
PlacedOnCountUnlimited(count) == IF count < 0 THEN "NegativeCount" ELSE "nil"

\* The check of the declared length of the can-be-placed-on list.
PlacedOnCountError(count) ==
    IF count < 0 THEN "NegativeCount"
    ELSE IF count > higherLimit THEN "LimitHit"
    ELSE "nil"

ItemCanBePlacedOn(b, v) ==
    Bind(Varint32(b), LAMBDA c :
        IF c.err # "nil" THEN Ret(c.err, v, c.rest, <<Rd("count(CanBePlacedOn)", c, b)>>, <<>>)
        ELSE IF PlacedOnCountError(c.val) # "nil"
        THEN Ret(PlacedOnCountError(c.val), v, c.rest,
                 <<Rd("count(CanBePlacedOn)", c, b)>>, <<>>)
        ELSE Bind(MakeAndReadStrings(c.rest, c.val, "CanBePlacedOn[i]",
                                     <<Rd("count(CanBePlacedOn)", c, b)>>),
                  LAMBDA l : Ret(l.err, [v EXCEPT !.CanBePlacedOn = l.list], l.rest,
                                 l.log, <<c.val>>)))

\* The same check with the comparison against zero left out.
CanBreakCountUnsigned(count) == IF count > higherLimit THEN "LimitHit" ELSE "nil"

\* The check of the declared length of the can-break list.
CanBreakCountError(count) ==
    IF count < 0 THEN "NegativeCount"
    ELSE IF count > higherLimit THEN "LimitHit"
    ELSE "nil"

ItemCanBreak(b, v) ==
    Bind(Varint32(b), LAMBDA c :
        IF c.err # "nil" THEN Ret(c.err, v, c.rest, <<Rd("count(CanBreak)", c, b)>>, <<>>)
        ELSE IF CanBreakCountError(c.val) # "nil"
        THEN Ret(CanBreakCountError(c.val), v, c.rest, <<Rd("count(CanBreak)", c, b)>>, <<>>)
        ELSE Bind(MakeAndReadStrings(c.rest, c.val, "CanBreak[i]",
                                     <<Rd("count(CanBreak)", c, b)>>),
                  LAMBDA l : Ret(l.err, [v EXCEPT !.CanBreak = l.list], l.rest,
                                 l.log, <<c.val>>)))

\* A blocking tick read for every stack that is not air.
ReadsBlockingTickAlways(networkID) == networkID # 0

\* Whether Item reads a trailing blocking tick for this network ID.
ReadsBlockingTick(networkID) == networkID = shieldID

ItemBlockingTick(b, v) ==
    IF ReadsBlockingTick(v.NetworkID)
    THEN Bind(Varint64(b), LAMBDA t :
             Ret(t.err, v, t.rest, <<Rd("blockingTick", t, b)>>, <<>>))
    ELSE Ret("nil", v, b, <<>>, <<>>)

\* The part of Item that ends with the can-break list.
ItemThroughCanBreak(b, v) ==
    Bind(ItemNetworkID(b, v), LAMBDA h :
        IF h.err # "nil" \/ h.x.NetworkID = 0 THEN h
        ELSE Then(Then(Then(Then(h, ItemAuxValue), ItemNBT), ItemCanBePlacedOn),
                  ItemCanBreak))

\* Item reads an item stack from b into v.
Item(b, v) ==
    Bind(ItemThroughCanBreak(b, v), LAMBDA k :
        IF k.err # "nil" \/ k.x.NetworkID = 0 THEN k
        ELSE Then(k, ItemBlockingTick))

\* int32(x.MetadataValue<<8) | int32(x.Count): the shift is an int16 shift.
WriteAuxValue(metadata, count) == OrInt16AsInt32(ToInt16(metadata * 256), count)

RECURSIVE WriteStrings(_)
WriteStrings(list) ==
    IF list = <<>> THEN <<>>
    ELSE WriteString(Head(list)) \o WriteStrings(Tail(list))

\* The NBT marker and compound WriteItem emits.
WriteItemNBT(v) ==
    IF Len(v.NBTData) # 0
    THEN WriteInt16LE(-1) \o <<1>> \o NBTMarshal(v.NBTData)
    ELSE WriteInt16LE(0)

\* The two loops of WriteItem over a block list; a string the list holds
\* unset is the empty string, written as its length 0.
WriteBlocks(s) ==
    WriteStrings(s.elems) \o Times(s.len - Len(s.elems), Head(WriteString(<<>>)))

\* WriteItem with a blocking tick written for every stack.
WriteBlockingTickAlways(networkID) == WriteVarint64(0)

\* The blocking tick WriteItem emits: always zero, and only for a shield.
WriteBlockingTick(networkID) ==
    IF networkID = shieldID THEN WriteVarint64(0) ELSE <<>>

\* WriteItem: the bytes appended to the buffer for stack v.
WriteItem(v) ==
    IF v.NetworkID = 0 THEN WriteVarint32(v.NetworkID)
    ELSE WriteVarint32(v.NetworkID)
         \o WriteVarint32(WriteAuxValue(v.MetadataValue, v.Count))
         \o WriteItemNBT(v)
         \o WriteVarint32(v.CanBePlacedOn.len) \o WriteBlocks(v.CanBePlacedOn)
         \o WriteVarint32(v.CanBreak.len) \o WriteBlocks(v.CanBreak)
         \o WriteBlockingTick(v.NetworkID)

\* The check of the count of a recipe ingredient.
IngredientCountError(count) == IF count < 0 THEN "NegativeCount" ELSE "nil"

\* The count of a recipe ingredient.
IngredientCount(b, v) ==
    Bind(Varint32(b), LAMBDA count :
        IF count.err # "nil" THEN Ret(count.err, v, count.rest, <<Rd("count", count, b)>>, <<>>)
        ELSE IF IngredientCountError(count.val) # "nil"
        THEN Ret(IngredientCountError(count.val), v, count.rest,
                 <<Rd("count", count, b)>>, <<>>)
        ELSE Ret("nil", [v EXCEPT !.Count = ToInt16(count.val)], count.rest,
                 <<Rd("count", count, b)>>, <<>>))

\* The metadata of a recipe ingredient.
IngredientMeta(b, v) ==
    Bind(Varint32(b), LAMBDA meta :
        IF meta.err # "nil" THEN Ret(meta.err, v, meta.rest, <<Rd("meta", meta, b)>>, <<>>)
        ELSE Ret("nil", [v EXCEPT !.MetadataValue = ToInt16(meta.val)], meta.rest,
                 <<Rd("meta", meta, b)>>, <<>>))

\* The network ID of a recipe ingredient: a failed read returns nil.
IngredientNetworkID(b, v) ==
    Bind(Varint32(b), LAMBDA id :
        IF id.err # "nil" THEN Ret("nil", v, id.rest, <<Rd("NetworkID", id, b)>>, <<>>)
        ELSE Ret("nil", [v EXCEPT !.NetworkID = id.val], id.rest,
                 <<Rd("NetworkID", id, b)>>, <<>>))

\* RecipeIngredient reads v as a recipe ingredient from b.
RecipeIngredient(b, v) ==
    Bind(IngredientNetworkID(b, v), LAMBDA h :
        IF h.log[1].e # "nil" \/ h.x.NetworkID = 0 THEN h
        ELSE Then(Then(h, IngredientMeta), IngredientCount))

\* WriteRecipeIngredient: the bytes appended for ingredient v.
WriteRecipeIngredient(v) ==
    IF v.NetworkID = 0 THEN WriteVarint32(v.NetworkID)
    ELSE WriteVarint32(v.NetworkID) \o WriteVarint32(v.MetadataValue)
         \o WriteVarint32(v.Count)

-----------------------------------------------------------------------------
(* Entity links (entity_link.go).                                          *)

\* chainErr(e1, e2, ...): the first error of the list that is not nil.
RECURSIVE chainErr(_)
chainErr(errs) ==
    IF errs = <<>> THEN "nil"
    ELSE IF Head(errs) # "nil" THEN Head(errs)
    ELSE chainErr(Tail(errs))

\* The zero EntityLink.
ZeroLink ==
    [RiddenEntityUniqueID |-> 0, RiderEntityUniqueID |-> 0, Type |-> 0,
     Immediate |-> FALSE, RiderInitiated |-> FALSE]

\* The bool binary.Read stores for a byte, and the byte binary.Write emits.
ByteToBool(b) == b # 0
BoolToByte(f) == IF f THEN 1 ELSE 0

\* One argument of a chainErr call: the read R for field f made on what the
\* reads before it (c) left, whether or not they failed; Set stores its
\* value when it succeeds.  c.errs collects the errors for chainErr.
Arg(c, f, R(_), Set(_, _)) ==
    Bind(R(c.rest), LAMBDA r :
        [x |-> IF r.err = "nil" THEN Set(c.x, r.val) ELSE c.x,
         rest |-> r.rest,
         errs |-> Append(c.errs, r.err),
         log |-> Append(c.log, Rd(f, r, c.rest))])

Args(b, v) == [x |-> v, rest |-> b, errs |-> <<>>, log |-> <<>>]

Byte(b) == ReadFixed(b, 1)

\* EntityLinkAction reads one link from b into v.  The five reads are the
\* arguments of one chainErr call: all five are made, in order, each on the
\* buffer as the one before left it.
EntityLinkAction(b, v) ==
    Bind(Arg(Arg(Arg(Arg(Arg(Args(b, v),
            "RiddenEntityUniqueID", Varint64,
                LAMBDA l, val : [l EXCEPT !.RiddenEntityUniqueID = val]),
            "RiderEntityUniqueID", Varint64,
                LAMBDA l, val : [l EXCEPT !.RiderEntityUniqueID = val]),
            "Type", Byte, LAMBDA l, val : [l EXCEPT !.Type = val[1]]),
            "Immediate", Byte, LAMBDA l, val : [l EXCEPT !.Immediate = ByteToBool(val[1])]),
            "RiderInitiated", Byte,
                LAMBDA l, val : [l EXCEPT !.RiderInitiated = ByteToBool(val[1])]),
         LAMBDA c : Ret(chainErr(c.errs), c.x, c.rest, c.log, <<>>))

\* The loop  for i < count { EntityLinkAction(src, &(*x)[i]) }  from link i.
RECURSIVE ReadLinks(_, _, _, _)
ReadLinks(b, list, i, lg) ==
    IF i > list.len THEN Ret("nil", list, b, lg, <<>>)
    ELSE Bind(EntityLinkAction(b, ZeroLink), LAMBDA l :
             Bind(<<[list EXCEPT !.elems = Append(@, l.x)], lg \o l.log>>, LAMBDA t :
                 IF l.err # "nil" THEN Ret(l.err, t[1], l.rest, t[2], <<>>)
                 ELSE ReadLinks(l.rest, t[1], i + 1, t[2])))

\* The same check with the comparison against lowerLimit left out.
LinkCountUnlimited(count) == "nil"

\* The check of the declared number of links.
LinkCountError(count) == IF count > lowerLimit THEN "LimitHit" ELSE "nil"

\* EntityLinks reads a list of links from b into v.
EntityLinks(b, v) ==
    Bind(Varuint32(b), LAMBDA c :
        IF c.err # "nil" THEN Ret(c.err, v, c.rest, <<Rd("count", c, b)>>, <<>>)
        ELSE IF LinkCountError(c.val) # "nil"
        THEN Ret(LinkCountError(c.val), v, c.rest, <<Rd("count", c, b)>>, <<>>)
        ELSE Bind(ReadLinks(c.rest, Make(c.val), 1, <<Rd("count", c, b)>>), LAMBDA l :
                 Ret(l.err, l.x, l.rest, l.log, <<c.val>>)))

\* WriteEntityLinkAction with the rider written before the ridden entity.
WriteEntityLinkActionRiderFirst(v) ==
    WriteVarint64(v.RiderEntityUniqueID) \o WriteVarint64(v.RiddenEntityUniqueID)
    \o <<v.Type, BoolToByte(v.Immediate), BoolToByte(v.RiderInitiated)>>

\* WriteEntityLinkAction: the bytes appended for link v.
WriteEntityLinkAction(v) ==
    WriteVarint64(v.RiddenEntityUniqueID) \o WriteVarint64(v.RiderEntityUniqueID)
    \o <<v.Type, BoolToByte(v.Immediate), BoolToByte(v.RiderInitiated)>>

RECURSIVE WriteLinkList(_)
WriteLinkList(list) ==
    IF list = <<>> THEN <<>>
    ELSE WriteEntityLinkAction(Head(list)) \o WriteLinkList(Tail(list))

\* WriteEntityLinks: the bytes appended for the list v.
WriteEntityLinks(v) == WriteVaruint32(v.len) \o WriteLinkList(Elements(v, ZeroLink))

-----------------------------------------------------------------------------
(* uint32 arithmetic.  A uint32 is kept as the four bytes binary.Read took *)
(* it from, least significant first; products are formed limb by limb, so  *)
(* that the exact product and the product Go computes (modulo 2^32) are    *)
(* both at hand.                                                           *)

\* The limbs (base 256, least significant first, w of them) of the number n.
RECURSIVE Limbs(_, _)
Limbs(n, w) == IF w = 0 THEN <<>> ELSE <<n % 256>> \o Limbs(n \div 256, w - 1)

\* uint32(n) for a length n.
U32(n) == Limbs(n, 4)

\* The number a uint32 holds (below 2^31 wherever the model asks for it).
U32Int(u) == u[1] + 256 * u[2] + 65536 * u[3] + 16777216 * u[4]

\* The sum of a[i] * b[j] over the limbs with i + j = k + 1, from i on.
RECURSIVE ColumnSum(_, _, _, _)
ColumnSum(a, b, k, i) ==
    IF i > Len(a) THEN 0
    ELSE (IF k + 1 - i \in DOMAIN b THEN a[i] * b[k + 1 - i] ELSE 0)
         + ColumnSum(a, b, k, i + 1)

\* The limbs of a * b from limb k on, carry being what the lower limbs left.
RECURSIVE ProductFrom(_, _, _, _)
ProductFrom(a, b, k, carry) ==
    IF k > Len(a) + Len(b) THEN <<>>
    ELSE Bind(ColumnSum(a, b, k, 1) + carry,
              LAMBDA t : <<t % 256>> \o ProductFrom(a, b, k + 1, t \div 256))

\* The exact product of two numbers given by their limbs.
ExactMul(a, b) == ProductFrom(a, b, 1, 0)

\* a * b as Go computes it for two uint32: the low 32 bits of the product.
U32Mul(a, b) == SubSeq(ExactMul(a, b), 1, 4)

\* The limbs a hold the number n.
LimbsEqual(a, n) == a = Limbs(n, Len(a))

-----------------------------------------------------------------------------
(* Skins (skin.go).                                                        *)

\* Byte slices are framed as strings are.
ByteSlice(b) == String(b)

\* binary.Read of a uint32, and Float32: four bytes, kept as read.
Uint32(b) == ReadFixed(b, 4)
Float32(b) == ReadFixed(b, 4)

\* What a chainErr call returns to the reader that made it.
Chained(c) == Ret(chainErr(c.errs), c.x, c.rest, c.log, <<>>)

\* The zero SkinAnimation, PersonaPiece and PersonaPieceTintColour.
ZeroAnimation ==
    [ImageWidth |-> U32(0), ImageHeight |-> U32(0), ImageData |-> <<>>,
     AnimationType |-> U32(0), FrameCount |-> <<0, 0, 0, 0>>]
ZeroPiece ==
    [PieceID |-> <<>>, PieceType |-> <<>>, PackID |-> <<>>, Default |-> FALSE,
     ProductID |-> <<>>]
ZeroTint == [PieceType |-> <<>>, Colours |-> NilSlice]

\* Animation reads a SkinAnimation from b into v.
Animation(b, v) ==
    Bind(Arg(Arg(Arg(Arg(Arg(Args(b, v),
            "ImageWidth", Uint32, LAMBDA l, val : [l EXCEPT !.ImageWidth = val]),
            "ImageHeight", Uint32, LAMBDA l, val : [l EXCEPT !.ImageHeight = val]),
            "ImageData", ByteSlice, LAMBDA l, val : [l EXCEPT !.ImageData = val]),
            "AnimationType", Uint32, LAMBDA l, val : [l EXCEPT !.AnimationType = val]),
            "FrameCount", Float32, LAMBDA l, val : [l EXCEPT !.FrameCount = val]),
         Chained)

\* SkinPiece reads a PersonaPiece from b into v.
SkinPiece(b, v) ==
    Bind(Arg(Arg(Arg(Arg(Arg(Args(b, v),
            "PieceID", String, LAMBDA l, val : [l EXCEPT !.PieceID = val]),
            "PieceType", String, LAMBDA l, val : [l EXCEPT !.PieceType = val]),
            "PackID", String, LAMBDA l, val : [l EXCEPT !.PackID = val]),
            "Default", Byte, LAMBDA l, val : [l EXCEPT !.Default = ByteToBool(val[1])]),
            "ProductID", String, LAMBDA l, val : [l EXCEPT !.ProductID = val]),
         Chained)

\* SkinPieceTint reads a PersonaPieceTintColour from b into v; c is the
\* local that takes the number of colours.
SkinPieceTint(b, v) ==
    Bind(Arg(Arg(Args(b, [x |-> v, c |-> U32(0)]),
            "PieceType", String, LAMBDA l, val : [l EXCEPT !.x.PieceType = val]),
            "c(Colours)", Uint32, LAMBDA l, val : [l EXCEPT !.c = val]),
         LAMBDA h :
            IF chainErr(h.errs) # "nil"
            THEN Ret(chainErr(h.errs), h.x.x, h.rest, h.log, <<>>)
            ELSE Bind(MakeAndReadStrings(h.rest, U32Int(h.x.c), "Colours[i]", h.log),
                      LAMBDA l : Ret(l.err, [h.x.x EXCEPT !.Colours = l.list], l.rest,
                                     l.log, <<U32Int(h.x.c)>>)))

\* The zero EnchantmentInstance and CreativeItem.
ZeroEnchant == [Type |-> 0, Level |-> 0]
ZeroCreativeItem == [CreativeItemNetworkID |-> 0, Item |-> ZeroItem]

\* Enchant reads an EnchantmentInstance from b into v.
Enchant(b, v) ==
    Bind(Arg(Arg(Args(b, v),
            "Type", Byte, LAMBDA l, val : [l EXCEPT !.Type = val[1]]),
            "Level", Byte, LAMBDA l, val : [l EXCEPT !.Level = val[1]]),
         Chained)

\* CreativeEntry reads a CreativeItem from b into v: its network ID and its
\* item stack, the two arguments of one chainErr call.
CreativeEntry(b, v) ==
    Bind(Varuint32(b), LAMBDA id :
        Bind(Item(id.rest, v.Item), LAMBDA it :
            Ret(chainErr(<<id.err, it.err>>),
                [CreativeItemNetworkID |->
                     IF id.err = "nil" THEN id.val ELSE v.CreativeItemNetworkID,
                 Item |-> it.x],
                it.rest, <<Rd("CreativeItemNetworkID", id, b)>> \o it.log, it.alloc)))

\* The reader of one element of a list of the given kind.
ReadElement(kind, b) ==
    CASE kind = "Animation" -> Animation(b, ZeroAnimation)
      [] kind = "SkinPiece" -> SkinPiece(b, ZeroPiece)
      [] kind = "SkinPieceTint" -> SkinPieceTint(b, ZeroTint)
      [] kind = "Enchant" -> Enchant(b, ZeroEnchant)
      [] kind = "CreativeEntry" -> CreativeEntry(b, ZeroCreativeItem)

\* The loop  for i < count { Reader(src, &list[i]) }  from element i on; it
\* returns at the first element whose reader fails.
RECURSIVE ReadEach(_, _, _, _, _, _)
ReadEach(kind, b, list, i, lg, al) ==
    IF i > list.len THEN Ret("nil", list, b, lg, al)
    ELSE Bind(ReadElement(kind, b), LAMBDA e :
             Bind(<<[list EXCEPT !.elems = Append(@, e.x)], lg \o e.log, al \o e.alloc>>,
                  LAMBDA t :
                 IF e.err # "nil" THEN Ret(e.err, t[1], e.rest, t[2], t[3])
                 ELSE ReadEach(kind, e.rest, t[1], i + 1, t[2], t[3])))

\* list = make([]T, count), then the loop over it.
MakeAndReadEach(kind, b, count, lg) ==
    Bind(Make(count), LAMBDA list : ReadEach(kind, b, list, 1, lg, <<count>>))

\* validate: the size of the skin, the cape and every animation, each
\* product a uint32 product.  (An animation not stored yet is the zero
\* animation, whose size matches.)
SizeMatches(width, height, data) ==
    U32Mul(U32Mul(height, width), U32(4)) = U32(Len(data))

validate(skin) ==
    IF ~SizeMatches(skin.SkinImageWidth, skin.SkinImageHeight, skin.SkinData)
    THEN "Invalid"
    ELSE IF ~SizeMatches(skin.CapeImageWidth, skin.CapeImageHeight, skin.CapeData)
    THEN "Invalid"
    ELSE IF \E i \in DOMAIN skin.Animations.elems :
                ~SizeMatches(skin.Animations.elems[i].ImageWidth,
                             skin.Animations.elems[i].ImageHeight,
                             skin.Animations.elems[i].ImageData)
    THEN "Invalid"
    ELSE "nil"

\* The zero Skin.
ZeroSkin ==
    [SkinID |-> <<>>, SkinResourcePatch |-> <<>>, SkinImageWidth |-> U32(0),
     SkinImageHeight |-> U32(0), SkinData |-> <<>>, Animations |-> NilSlice,
     CapeImageWidth |-> U32(0), CapeImageHeight |-> U32(0), CapeData |-> <<>>,
     SkinGeometry |-> <<>>, AnimationData |-> <<>>, PremiumSkin |-> FALSE,
     PersonaSkin |-> FALSE, PersonaCapeOnClassicSkin |-> FALSE, CapeID |-> <<>>,
     FullSkinID |-> <<>>, SkinColour |-> <<>>, ArmSize |-> <<>>,
     PersonaPieces |-> NilSlice, PieceTintColours |-> NilSlice, Trusted |-> FALSE]

\* The first chainErr call of SerialisedSkin and the animations after it;
\* animationCount is the local the last read of the call fills.
SkinThroughAnimations(b, v) ==
    Bind(Arg(Arg(Arg(Arg(Arg(Arg(Args(b, [x |-> v, animationCount |-> U32(0)]),
            "SkinID", String, LAMBDA l, val : [l EXCEPT !.x.SkinID = val]),
            "SkinResourcePatch", ByteSlice,
                LAMBDA l, val : [l EXCEPT !.x.SkinResourcePatch = val]),
            "SkinImageWidth", Uint32, LAMBDA l, val : [l EXCEPT !.x.SkinImageWidth = val]),
            "SkinImageHeight", Uint32, LAMBDA l, val : [l EXCEPT !.x.SkinImageHeight = val]),
            "SkinData", ByteSlice, LAMBDA l, val : [l EXCEPT !.x.SkinData = val]),
            "animationCount", Uint32, LAMBDA l, val : [l EXCEPT !.animationCount = val]),
         LAMBDA h :
            IF chainErr(h.errs) # "nil"
            THEN Ret(chainErr(h.errs), h.x.x, h.rest, h.log, <<>>)
            ELSE Bind(MakeAndReadEach("Animation", h.rest, U32Int(h.x.animationCount), h.log),
                      LAMBDA a : [a EXCEPT !.x = [h.x.x EXCEPT !.Animations = a.x]]))

\* The second chainErr call and the persona pieces after it; c is the local
\* the last read of the call fills.
SkinThroughPieces(b, v) ==
    Bind(Arg(Arg(Arg(Arg(Arg(Arg(Arg(Arg(Arg(Arg(Arg(Arg(Arg(
            Args(b, [x |-> v, c |-> U32(0)]),
            "CapeImageWidth", Uint32, LAMBDA l, val : [l EXCEPT !.x.CapeImageWidth = val]),
            "CapeImageHeight", Uint32, LAMBDA l, val : [l EXCEPT !.x.CapeImageHeight = val]),
            "CapeData", ByteSlice, LAMBDA l, val : [l EXCEPT !.x.CapeData = val]),
            "SkinGeometry", ByteSlice, LAMBDA l, val : [l EXCEPT !.x.SkinGeometry = val]),
            "AnimationData", ByteSlice, LAMBDA l, val : [l EXCEPT !.x.AnimationData = val]),
            "PremiumSkin", Byte,
                LAMBDA l, val : [l EXCEPT !.x.PremiumSkin = ByteToBool(val[1])]),
            "PersonaSkin", Byte,
                LAMBDA l, val : [l EXCEPT !.x.PersonaSkin = ByteToBool(val[1])]),
            "PersonaCapeOnClassicSkin", Byte,
                LAMBDA l, val : [l EXCEPT !.x.PersonaCapeOnClassicSkin = ByteToBool(val[1])]),
            "CapeID", String, LAMBDA l, val : [l EXCEPT !.x.CapeID = val]),
            "FullSkinID", String, LAMBDA l, val : [l EXCEPT !.x.FullSkinID = val]),
            "ArmSize", String, LAMBDA l, val : [l EXCEPT !.x.ArmSize = val]),
            "SkinColour", String, LAMBDA l, val : [l EXCEPT !.x.SkinColour = val]),
            "c(PersonaPieces)", Uint32, LAMBDA l, val : [l EXCEPT !.c = val]),
         LAMBDA h :
            IF chainErr(h.errs) # "nil"
            THEN Ret(chainErr(h.errs), h.x.x, h.rest, h.log, <<>>)
            ELSE Bind(MakeAndReadEach("SkinPiece", h.rest, U32Int(h.x.c), h.log),
                      LAMBDA p : [p EXCEPT !.x = [h.x.x EXCEPT !.PersonaPieces = p.x]]))

\* The number of tint colours and the tints.
SkinTints(b, v) ==
    Bind(Uint32(b), LAMBDA c :
        IF c.err # "nil" THEN Ret(c.err, v, c.rest, <<Rd("c(PieceTintColours)", c, b)>>, <<>>)
        ELSE Bind(MakeAndReadEach("SkinPieceTint", c.rest, U32Int(c.val),
                                  <<Rd("c(PieceTintColours)", c, b)>>),
                  LAMBDA t : [t EXCEPT !.x = [v EXCEPT !.PieceTintColours = t.x]]))

\* return x.validate()
SkinValidated(b, v) == Ret(validate(v), v, b, <<>>, <<>>)

\* SerialisedSkin reads a Skin from b into v.
SerialisedSkin(b, v) ==
    Then(Then(Then(SkinThroughAnimations(b, v), SkinThroughPieces), SkinTints),
         SkinValidated)

\* WriteByteSlice frames a byte slice as WriteString frames a string.
WriteByteSlice(s) == WriteString(s)

\* WriteAnimation: the bytes appended for the animation v.
WriteAnimation(v) ==
    v.ImageWidth \o v.ImageHeight \o WriteByteSlice(v.ImageData) \o v.AnimationType
    \o v.FrameCount

\* WriteSkinPiece: the bytes appended for the persona piece v.
WriteSkinPiece(v) ==
    WriteString(v.PieceID) \o WriteString(v.PieceType) \o WriteString(v.PackID)
    \o <<BoolToByte(v.Default)>> \o WriteString(v.ProductID)

\* WriteSkinPieceTint: the bytes appended for the tint v.
WriteSkinPieceTint(v) ==
    WriteString(v.PieceType) \o U32(v.Colours.len) \o WriteBlocks(v.Colours)

\* The writer of one element of a list of the given kind.
WriteElement(kind, v) ==
    CASE kind = "Animation" -> WriteAnimation(v)
      [] kind = "SkinPiece" -> WriteSkinPiece(v)
      [] kind = "SkinPieceTint" -> WriteSkinPieceTint(v)

\* The loop  for _, e := range list { Writer(dst, e) }.
RECURSIVE WriteEach(_, _)
WriteEach(kind, list) ==
    IF list = <<>> THEN <<>>
    ELSE WriteElement(kind, Head(list)) \o WriteEach(kind, Tail(list))

\* What WriteSerialisedSkin appends once validate has passed.
WriteSkinFields(v) ==
    WriteString(v.SkinID) \o WriteByteSlice(v.SkinResourcePatch)
    \o v.SkinImageWidth \o v.SkinImageHeight \o WriteByteSlice(v.SkinData)
    \o U32(v.Animations.len) \o WriteEach("Animation", Elements(v.Animations, ZeroAnimation))
    \o v.CapeImageWidth \o v.CapeImageHeight \o WriteByteSlice(v.CapeData)
    \o WriteByteSlice(v.SkinGeometry) \o WriteByteSlice(v.AnimationData)
    \o <<BoolToByte(v.PremiumSkin), BoolToByte(v.PersonaSkin),
         BoolToByte(v.PersonaCapeOnClassicSkin)>>
    \o WriteString(v.CapeID) \o WriteString(v.FullSkinID) \o WriteString(v.ArmSize)
    \o WriteString(v.SkinColour)
    \o U32(v.PersonaPieces.len)
    \o WriteEach("SkinPiece", Elements(v.PersonaPieces, ZeroPiece))
    \o U32(v.PieceTintColours.len)
    \o WriteEach("SkinPieceTint", Elements(v.PieceTintColours, ZeroTint))

\* WriteSerialisedSkin: a panic when validate fails, else the bytes appended.
WriteSerialisedSkin(v) ==
    IF validate(v) # "nil" THEN [err |-> "panic", bytes |-> <<>>]
    ELSE [err |-> "nil", bytes |-> WriteSkinFields(v)]

-----------------------------------------------------------------------------
(* Enchantment buckets and the creative content packet.                    *)

\* The zero ItemEnchantments; Slot is kept as the four bytes read.
ZeroEnchantments ==
    [Slot |-> <<0, 0, 0, 0>>, Enchantments |-> <<NilSlice, NilSlice, NilSlice>>]

\* The loop  for i < 3  of ItemEnchants from bucket i on: the length l of
\* the bucket, the bucket made with that length, and its enchantments.
RECURSIVE EnchantBuckets(_, _, _, _, _)
EnchantBuckets(b, v, i, lg, al) ==
    IF i > 3 THEN Ret("nil", v, b, lg, al)
    ELSE Bind(Varuint32(b), LAMBDA l :
             IF l.err # "nil" THEN Ret(l.err, v, l.rest, Append(lg, Rd("l", l, b)), al)
             ELSE Bind(MakeAndReadEach("Enchant", l.rest, l.val,
                                       Append(lg, Rd("l", l, b))),
                       LAMBDA e :
                 Bind([v EXCEPT !.Enchantments[i] = e.x], LAMBDA v2 :
                     IF e.err # "nil" THEN Ret(e.err, v2, e.rest, e.log, al \o e.alloc)
                     ELSE EnchantBuckets(e.rest, v2, i + 1, e.log, al \o e.alloc))))

\* ItemEnchants reads an ItemEnchantments from b into v.
ItemEnchants(b, v) ==
    Bind(ReadFixed(b, 4), LAMBDA s :
        IF s.err # "nil" THEN Ret(s.err, v, s.rest, <<Rd("Slot", s, b)>>, <<>>)
        ELSE EnchantBuckets(s.rest, [v EXCEPT !.Slot = s.val], 1, <<Rd("Slot", s, b)>>, <<>>))

\* CreativeContent.Unmarshal reads the packet pk from b.
CreativeContentUnmarshal(b, pk) ==
    Bind(Varuint32(b), LAMBDA count :
        IF count.err # "nil"
        THEN Ret(count.err, pk, count.rest, <<Rd("count", count, b)>>, <<>>)
        ELSE Bind(MakeAndReadEach("CreativeEntry", count.rest, count.val,
                                  <<Rd("count", count, b)>>),
                  LAMBDA l : [l EXCEPT !.x = [pk EXCEPT !.Items = l.x]]))

\* WriteEnchant: the two bytes appended for the instance v.
WriteEnchant(v) == <<v.Type, v.Level>>

RECURSIVE WriteEnchantList(_)
WriteEnchantList(list) ==
    IF list = <<>> THEN <<>>
    ELSE WriteEnchant(Head(list)) \o WriteEnchantList(Tail(list))

\* A bucket written only when it holds an enchantment.
WriteEnchantBucketIfAny(s) ==
    IF s.len = 0 THEN <<>>
    ELSE WriteVaruint32(s.len) \o WriteEnchantList(Elements(s, ZeroEnchant))

\* One pass of the loop of WriteItemEnchants: the length of the bucket and
\* its enchantments.
WriteEnchantBucket(s) == WriteVaruint32(s.len) \o WriteEnchantList(Elements(s, ZeroEnchant))

\* WriteItemEnchants: the bytes appended for the enchantments v.
WriteItemEnchants(v) ==
    v.Slot \o WriteEnchantBucket(v.Enchantments[1]) \o WriteEnchantBucket(v.Enchantments[2])
    \o WriteEnchantBucket(v.Enchantments[3])

\* The zero EnchantmentOption.
ZeroOption ==
    [Cost |-> 0, Enchantments |-> ZeroEnchantments, Name |-> <<>>, RecipeNetworkID |-> 0]

\* WriteEnchantOption: the bytes appended for the option v.
WriteEnchantOption(v) ==
    WriteVaruint32(v.Cost) \o WriteItemEnchants(v.Enchantments) \o WriteString(v.Name)
    \o WriteVaruint32(v.RecipeNetworkID)

\* EnchantOption reads an EnchantmentOption from b into v.  The four reads
\* are the arguments of one chainErr call: all four are made, in order,
\* each on what the one before it left.
EnchantOption(b, v) ==
    Bind(Varuint32(b), LAMBDA cost :
        Bind(ItemEnchants(cost.rest, v.Enchantments), LAMBDA e :
            Bind(String(e.rest), LAMBDA name :
                Bind(Varuint32(name.rest), LAMBDA id :
                    Ret(chainErr(<<cost.err, e.err, name.err, id.err>>),
                        [Cost |-> IF cost.err = "nil" THEN cost.val ELSE v.Cost,
                         Enchantments |-> e.x,
                         Name |-> IF name.err = "nil" THEN name.val ELSE v.Name,
                         RecipeNetworkID |->
                             IF id.err = "nil" THEN id.val ELSE v.RecipeNetworkID],
                        id.rest,
                        <<Rd("Cost", cost, b)>> \o e.log
                            \o <<Rd("Name", name, e.rest),
                                 Rd("RecipeNetworkID", id, name.rest)>>,
                        e.alloc)))))

\* Varuint64: an unsigned LEB128 number of at most ten bytes; a uint64 is
\* kept as the 7-bit groups read, least significant first.
Varuint64(b) == Groups(b, 10, <<>>)

\* The zero ActorEvent.
ZeroActorEvent == [EntityRuntimeID |-> <<0>>, EventType |-> 0, EventData |-> 0]

\* ActorEvent.Unmarshal reads the packet pk from b: three reads, the
\* arguments of one chainErr call.
ActorEventUnmarshal(b, pk) ==
    Bind(Arg(Arg(Arg(Args(b, pk),
            "EntityRuntimeID", Varuint64, LAMBDA l, val : [l EXCEPT !.EntityRuntimeID = val]),
            "EventType", Byte, LAMBDA l, val : [l EXCEPT !.EventType = val[1]]),
            "EventData", Varint32, LAMBDA l, val : [l EXCEPT !.EventData = val]),
         Chained)

-----------------------------------------------------------------------------
(* The packet registry (package packet): Register, NewPool and the map     *)
(* PacketsByName.  Callers are goroutines; Register is a map assignment    *)
(* and NewPool a range over the same map, neither under a lock, so a       *)
(* caller may be in the middle of one while another starts.                *)

\* Bounds of the registry model.
MaxRegisters == 2   \* Register calls per run
MaxPools == 2       \* NewPool calls per run
MaxFilled == 1      \* packets a decoder fills per run

\* The goroutines: both call Register, the first also NewPool (it decodes).
Callers == {1, 2}
Decoders == {1}

\* The packets of the literal of NewPool, by ID (three of them; the IDs are
\* distinct constants), and the name of the type of each.
Builtin ==
    [IDLogin |-> "Login",
     IDStructureTemplateDataRequest |-> "StructureTemplateDataExportResponse",
     IDStructureTemplateDataResponse |-> "StructureTemplateDataExportResponse"]
BuiltinIDs == DOMAIN Builtin

\* The functions a user registers, each returning a new packet of the type
\* named, and the IDs they are registered for: one built in, one not.
Constructors == [NewCustomLogin |-> "CustomLogin", NewCustom |-> "Custom"]
Registrations ==
    {<<"IDLogin", "NewCustomLogin">>, <<"IDCustom", "NewCustom">>,
     <<"IDCustom", "NewCustomLogin">>}

\* A function with one more mapping: m[k] = v of a Go map.
MapAssign(m, k, v) == [i \in DOMAIN m \cup {k} |-> IF i = k THEN v ELSE m[i]]

EmptyMap == [i \in {} |-> 0]

\* A packet of a pool: where it lives, its type and the function that made
\* it ("literal" for a packet of the literal of NewPool).  An address names
\* the allocation: the NewPool call it was made in and what it was made for.
Instance(a, type, by) == [addr |-> a, type |-> type, ctor |-> by]

\* One packet per ID kept by the registry and handed out by every call.
CanonicalPacket(n, id) == <<0, id, "literal">>

\* &T{} of the literal of call n of NewPool: a new packet.
NewPacket(n, id) == <<n, id, "literal">>

\* p := Pool{...}: a packet per built-in ID.
PoolLiteral(n) == [id \in BuiltinIDs |-> Instance(NewPacket(n, id), Builtin[id], "literal")]

\* The range with the packets of the literal kept.
PoolRangeKeepingLiteral(p, m, n) ==
    [id \in DOMAIN p \cup DOMAIN m |->
        IF id \in DOMAIN p THEN p[id]
        ELSE Instance(<<n, id, m[id]>>, Constructors[m[id]], m[id])]

\* for id, pk := range registeredPackets { p[id] = pk() }, on the map m.
PoolRange(p, m, n) ==
    [id \in DOMAIN p \cup DOMAIN m |->
        IF id \in DOMAIN m THEN Instance(<<n, id, m[id]>>, Constructors[m[id]], m[id])
        ELSE p[id]]

\* The objects a pool holds: the map and its packets.
Objects(pool) == {pool.map} \cup {pool.p[id].addr : id \in DOMAIN pool.p}

\* func init(): PacketsByName[name of the type of pk] = a function creating
\* that type, for every packet of NewPool() (registeredPackets being empty
\* when package initialisation runs).
PackageInit == [n \in {Builtin[id] : id \in BuiltinIDs} |-> n]

Idle == [op |-> "idle"]

\* The registry after package initialisation.
RegistryLoaded ==
    /\ registeredPackets = EmptyMap
    /\ PacketsByName = PackageInit
    /\ heap = EmptyMap
    /\ pools = <<>>
    /\ pc = [c \in Callers |-> Idle]
    /\ calls = <<>>
    /\ fault = "none"

Writing(c) == pc[c].op = "Register"
Ranging(c) == pc[c].op = "NewPool"

\* ID -> the constructor of the last Register call made for it.
RECURSIVE Latest(_)
Latest(cs) ==
    IF cs = <<>> THEN EmptyMap
    ELSE MapAssign(Latest(SubSeq(cs, 1, Len(cs) - 1)), cs[Len(cs)][1], cs[Len(cs)][2])

\* The IDs whose packets a decoder fills.
FilledIDs == {"IDLogin", "IDCustom"}

\* Register, entered: the assignment registeredPackets[id] = pk begins.
RegisterCall(c, id, pk) ==
    /\ fault # "fatal"
    /\ pc[c] = Idle
    /\ pc' = [pc EXCEPT ![c] = [op |-> "Register", id |-> id, pk |-> pk]]
    /\ calls' = Append(calls, <<id, pk>>)
    /\ fault' = IF \E d \in Callers \ {c} : Writing(d) \/ Ranging(d) THEN "raced" ELSE fault
    /\ UNCHANGED <<registeredPackets, PacketsByName, heap, pools>>

\* Register, returning: the assignment is done.
RegisterReturn(c) ==
    /\ fault # "fatal"
    /\ Writing(c)
    /\ registeredPackets' = MapAssign(registeredPackets, pc[c].id, pc[c].pk)
    /\ pc' = [pc EXCEPT ![c] = Idle]
    /\ UNCHANGED <<PacketsByName, heap, pools, calls, fault>>

\* An assignment that overlapped another access of the map is a data race:
\* the entry may be lost.
RegisterLost(c) ==
    /\ fault = "raced"
    /\ Writing(c)
    /\ pc' = [pc EXCEPT ![c] = Idle]
    /\ UNCHANGED <<registeredPackets, PacketsByName, heap, pools, calls, fault>>

\* The runtime may detect the overlap and end the process ("concurrent map
\* writes", "concurrent map iteration and map write").
Fatal ==
    /\ fault = "raced"
    /\ \E c \in Callers : Writing(c)
    /\ fault' = "fatal"
    /\ UNCHANGED <<registeredPackets, PacketsByName, heap, pools, pc, calls>>

\* The NewPool calls made so far.
PoolCalls == Len(pools) + Cardinality({c \in Callers : Ranging(c)})

\* NewPool, entered: the literal is built and the range over
\* registeredPackets begins.
NewPoolCall(c) ==
    /\ fault # "fatal"
    /\ pc[c] = Idle
    /\ PoolCalls < MaxPools
    /\ pc' = [pc EXCEPT ![c] = [op |-> "NewPool", n |-> PoolCalls + 1,
                                p |-> PoolLiteral(PoolCalls + 1)]]
    /\ fault' = IF \E d \in Callers \ {c} : Writing(d) THEN "raced" ELSE fault
    /\ UNCHANGED <<registeredPackets, PacketsByName, heap, pools, calls>>

\* NewPool, returning: the range has set p[id] = pk() for every entry of
\* registeredPackets, and p is returned.
NewPoolReturn(c) ==
    /\ fault # "fatal"
    /\ Ranging(c)
    /\ \E pool \in {[map |-> <<pc[c].n, "Pool">>,
                     p |-> PoolRange(pc[c].p, registeredPackets, pc[c].n),
                     registered |-> Latest(calls),
                     raced |-> fault # "none"]} :
           /\ pools' = Append(pools, pool)
           /\ heap' = [a \in DOMAIN heap \cup Objects(pool) |->
                          IF a \in DOMAIN heap THEN heap[a] ELSE 0]
    /\ pc' = [pc EXCEPT ![c] = Idle]
    /\ UNCHANGED <<registeredPackets, PacketsByName, calls, fault>>

\* A decoder fills the packet of ID id of pool i (Unmarshal into it).
Populate(i, id) ==
    /\ fault # "fatal"
    /\ id \in DOMAIN pools[i].p
    /\ Cardinality({a \in DOMAIN heap : heap[a] # 0}) < MaxFilled
    /\ heap' = [heap EXCEPT ![pools[i].p[id].addr] = i]
    /\ UNCHANGED <<registeredPackets, PacketsByName, pools, pc, calls, fault>>

\* The codec is not exercised in a run of the registry.
CodecIdle ==
    /\ codec = "registry"
    /\ src = <<>>
    /\ dst = <<>>
    /\ x = <<>>
    /\ err = "nil"
    /\ hist = <<>>
    /\ pre = [src |-> <<>>, dst |-> <<>>, x |-> <<>>]
    /\ log = <<>>
    /\ alloc = <<>>

RegistryInit == CodecIdle /\ RegistryLoaded

CallRegister ==
    /\ Len(calls) < MaxRegisters
    /\ \E c \in Callers, r \in Registrations : RegisterCall(c, r[1], r[2])
    /\ UNCHANGED codecVars

RegisterDone == (\E c \in Callers : RegisterReturn(c)) /\ UNCHANGED codecVars

RegisterRaced == (\E c \in Callers : RegisterLost(c)) /\ UNCHANGED codecVars

RuntimeFatal == Fatal /\ UNCHANGED codecVars

CallNewPool == (\E c \in Decoders : NewPoolCall(c)) /\ UNCHANGED codecVars

NewPoolDone == (\E c \in Callers : NewPoolReturn(c)) /\ UNCHANGED codecVars

Unmarshals ==
    /\ \E i \in DOMAIN pools : \E id \in FilledIDs : Populate(i, id)
    /\ UNCHANGED codecVars

RegistryNext ==
    \/ CallRegister
    \/ RegisterDone
    \/ RegisterRaced
    \/ RuntimeFatal
    \/ CallNewPool
    \/ NewPoolDone
    \/ Unmarshals

RegistrySpec == RegistryInit /\ [][RegistryNext]_vars

-----------------------------------------------------------------------------
(* The item stack codec as a state machine: a caller holding a value x, a  *)
(* read buffer and a write buffer calls the readers and writers.           *)

\* Bounds of the model.
MaxBlocks == 1      \* block names per list of a value handed to a writer
MaxNameLen == 1     \* bytes per block name of such a value
MaxCalls == 3       \* calls per run
MaxLinks == 1       \* links per list of a value handed to a writer
MaxEnchants == 1    \* enchantments per bucket of a value handed to a writer

ItemIDs == {0, 1, shieldID, -2}
Metadatas == {0, 1, 128, 256, -1}
Counts == {0, 1, 255, 256, -1}

RECURSIVE SeqsUpTo(_, _)
SeqsUpTo(S, n) ==
    IF n = 0 THEN {<<>>}
    ELSE SeqsUpTo(S, n - 1)
         \cup {Append(q, e) : q \in {t \in SeqsUpTo(S, n - 1) : Len(t) = n - 1}, e \in S}

BlockNames == SeqsUpTo({97}, MaxNameLen)
BlockLists == {Slice(l) : l \in SeqsUpTo(BlockNames, MaxBlocks)}

\* The values a caller hands to the writers.
ItemValues ==
    {[NetworkID |-> i, MetadataValue |-> m, Count |-> c, NBTData |-> <<>>,
      CanBePlacedOn |-> p, CanBreak |-> k] :
        i \in ItemIDs, m \in Metadatas, c \in Counts, p \in BlockLists, k \in BlockLists}

\* Stacks with a block list one longer than Item accepts.
OversizedItems ==
    {[NetworkID |-> i, MetadataValue |-> 0, Count |-> 1, NBTData |-> <<>>,
      CanBePlacedOn |-> p, CanBreak |-> k] :
        i \in {1, shieldID},
        p \in {NilSlice, Make(higherLimit + 1)},
        k \in {NilSlice, Make(higherLimit + 1)}}
    \ ItemValues

\* What the output value of a reader may hold before the call.
DirtyItem ==
    [NetworkID |-> 7, MetadataValue |-> 3, Count |-> 9,
     NBTData |-> <<[tag |-> 1, name |-> <<110>>, payload |-> <<1>>]>>,
     CanBePlacedOn |-> Slice(<<<<97>>>>), CanBreak |-> Slice(<<<<97>>, <<>>>>)]
PriorValues == {ZeroItem, DirtyItem}

\* The inputs a reader is given: every prefix of the concatenation of one
\* choice per field, so that each field is met whole, cut short and absent.
InNetworkID == {WriteVarint32(1), WriteVarint32(shieldID), <<128, 0>>, WriteVarint32(0)}
InAuxValue == {WriteVarint32(257), WriteVarint32(-1), WriteVarint32(32768)}
InNBT == {<<0, 0>>, <<255, 255, 1, 10, 0, 0, 0>>, <<255, 255, 2>>, <<4, 0, 10, 0, 0, 0>>,
          <<254, 255>>, <<10, 0>> \o NBTMarshal(<<[tag |-> 1, name |-> <<110>>, payload |-> <<1>>]>>)}
InBlocks == {WriteVarint32(0), WriteVarint32(1) \o <<1, 97>>, WriteVarint32(-1),
             WriteVarint32(higherLimit + 1) \o <<1, 97>>}
InTail == {<<>>, <<0>>, <<2>>}

Prefixes(b) == {SubSeq(b, 1, n) : n \in 0..Len(b)}

ItemInputs ==
    UNION {Prefixes(i \o a \o n \o p \o k \o t) :
               i \in InNetworkID, a \in InAuxValue, n \in InNBT,
               p \in InBlocks, k \in InBlocks, t \in InTail}
    \cup {WriteVarint32(1) \o WriteVarint32(8388609) \o <<0, 0>>
               \o WriteVarint32(1) \o <<1, 97>> \o WriteVarint32(0),
          WriteVarint32(1) \o <<0, 0, 0>> \o WriteVarint32(higherLimit) \o <<1, 97>>,
          WriteVarint32(1) \o <<0, 0, 0, 0>> \o WriteVarint32(higherLimit) \o <<1, 97>>}

\* The links a caller hands to the writer, and what the output of the
\* reader may hold before the call.
Links ==
    {[RiddenEntityUniqueID |-> -1, RiderEntityUniqueID |-> 2, Type |-> 1,
      Immediate |-> FALSE, RiderInitiated |-> TRUE],
     [RiddenEntityUniqueID |-> 300, RiderEntityUniqueID |-> -70000, Type |-> 2,
      Immediate |-> TRUE, RiderInitiated |-> FALSE],
     ZeroLink}
LinkValues == {Slice(l) : l \in SeqsUpTo(Links, MaxLinks)}
PriorLinks ==
    {NilSlice,
     Slice(<<[RiddenEntityUniqueID |-> 5, RiderEntityUniqueID |-> 6, Type |-> 2,
              Immediate |-> TRUE, RiderInitiated |-> TRUE]>>)}

\* The inputs of EntityLinks: every prefix of a count and two links.
InLinkCount == {WriteVaruint32(0), WriteVaruint32(1), WriteVaruint32(2),
                WriteVaruint32(lowerLimit), WriteVaruint32(lowerLimit + 1)}
InLink == {<<1, 4, 1, 0, 1>>, <<216, 4, 0, 2, 7, 0>>, <<128, 128>>}

LinkInputs ==
    UNION {Prefixes(c \o l1 \o l2) : c \in InLinkCount, l1 \in InLink, l2 \in InLink}

\* The inputs of SerialisedSkin.  An image is a width, a height and the
\* pixel bytes: 0x0 and 1x1 images of the right size, a 1x1 image with no
\* pixels, and images whose 4*w*h is 2^32, 2^33 and 2^32 + 4.
InImage ==
    <<U32(0) \o U32(0) \o <<0>>,
      U32(1) \o U32(1) \o <<4, 1, 2, 3, 4>>,
      <<0, 0, 0, 64>> \o U32(1) \o <<0>>,
      U32(1) \o U32(1) \o <<0>>,
      <<0, 0, 0, 128>> \o U32(2) \o <<0>>,
      <<1, 0, 0, 64>> \o U32(1) \o <<4, 1, 2, 3, 4>>>>

\* A count above both limits of the package.
OverLimit == higherLimit + 1

InAnimation == [i \in DOMAIN InImage |-> InImage[i] \o U32(1) \o <<0, 0, 128, 63>>]
InAnimations ==
    <<U32(0), U32(1) \o InAnimation[2], U32(1) \o InAnimation[3], U32(1) \o InAnimation[4],
      U32(2) \o InAnimation[2] \o InAnimation[6], U32(OverLimit)>>
InPiece == <<1, 97>> \o <<0>> \o <<0>> \o <<1>> \o <<1, 98>>
InPieces == <<U32(0), U32(1) \o InPiece, U32(OverLimit)>>
InTints ==
    <<U32(0), U32(1) \o <<1, 97>> \o U32(0), U32(1) \o <<0>> \o U32(1) \o <<1, 35>>,
      U32(1) \o <<0>> \o U32(OverLimit), U32(OverLimit)>>

\* The bytes of a skin whose image, animations, cape, pieces and tints are
\* the given choices.
SkinBytes(i, a, c, p, t) ==
    <<1, 97>> \o <<0>> \o InImage[i] \o InAnimations[a]
    \o InImage[c] \o <<0>> \o <<0>> \o <<1, 0, 0>>
    \o <<0>> \o <<0>> \o <<0>> \o <<0>> \o InPieces[p] \o InTints[t]

\* Every prefix of a skin that differs from the plain one in one choice.
SkinInputs ==
    UNION {Prefixes(SkinBytes(i, 1, 1, 1, 1)) : i \in DOMAIN InImage}
    \cup UNION {Prefixes(SkinBytes(1, a, 1, 1, 1)) : a \in DOMAIN InAnimations}
    \cup UNION {Prefixes(SkinBytes(1, 1, c, 1, 1)) : c \in DOMAIN InImage}
    \cup UNION {Prefixes(SkinBytes(1, 1, 1, q, 1)) : q \in DOMAIN InPieces}
    \cup UNION {Prefixes(SkinBytes(1, 1, 1, 1, t)) : t \in DOMAIN InTints}
    \cup Prefixes(SkinBytes(2, 2, 2, 2, 3))

DirtySkin ==
    [ZeroSkin EXCEPT !.SkinID = <<98>>, !.SkinImageWidth = U32(1),
                     !.SkinImageHeight = U32(1), !.SkinData = <<9, 9, 9, 9>>,
                     !.Animations = Slice(<<ZeroAnimation>>), !.CapeID = <<99>>,
                     !.PersonaPieces = Slice(<<ZeroPiece>>), !.Trusted = TRUE]
PriorSkins == {ZeroSkin, DirtySkin}

\* The inputs of ItemEnchants: every prefix of a slot and three buckets.
InBucket == {<<0>>, <<1, 5, 2>>, <<2, 1, 1, 2, 2>>, WriteVaruint32(OverLimit)}
EnchantInputs ==
    UNION {Prefixes(<<16, 0, 0, 0>> \o b1 \o b2 \o b3) :
               b1 \in InBucket, b2 \in InBucket, b3 \in InBucket}
PriorEnchantments ==
    {ZeroEnchantments,
     [Slot |-> <<1, 0, 0, 0>>,
      Enchantments |-> <<Slice(<<[Type |-> 9, Level |-> 1]>>), NilSlice,
                         Slice(<<ZeroEnchant>>)>>]}

\* The inputs of CreativeContent.Unmarshal: every prefix of a count and
\* two entries.
InEntry == {<<1, 0>>, <<2, 2, 130, 4, 0, 0, 0, 0>>, <<3, 130, 8, 130, 4, 0, 0, 0, 0, 2>>}
CreativeInputs ==
    UNION {Prefixes(WriteVaruint32(n) \o e1 \o e2) :
               n \in {0, 1, 2, OverLimit}, e1 \in InEntry, e2 \in InEntry}
PriorPackets ==
    {[Items |-> NilSlice],
     [Items |-> Slice(<<[CreativeItemNetworkID |-> 4, Item |-> DirtyItem]>>)]}

\* The values handed to WriteEntityLinkAction, and the inputs of
\* EntityLinkAction: every prefix of a link, and of a link whose first
\* varint64 never ends.
DirtyLink ==
    [RiddenEntityUniqueID |-> 5, RiderEntityUniqueID |-> 6, Type |-> 2,
     Immediate |-> TRUE, RiderInitiated |-> TRUE]
Unending == Times(10, 128)
LinkActionInputs ==
    UNION {Prefixes(l) : l \in InLink \cup {Unending \o <<4, 1, 0, 1>>, <<1>> \o Unending \o <<3, 1, 1>>}}

InitLink ==
    /\ codec = "link"
    /\ \/ src \in LinkActionInputs /\ x \in {ZeroLink, DirtyLink}
       \/ src = <<>> /\ x \in Links

\* The values handed to WriteItemEnchants and WriteEnchantOption, and the
\* inputs of EnchantOption: every prefix of a cost, the enchantments, a name
\* and a recipe network ID.
EnchantLists ==
    {Slice(l) : l \in SeqsUpTo({[Type |-> 9, Level |-> 1], ZeroEnchant}, MaxEnchants)}
EnchantValues ==
    {[Slot |-> s, Enchantments |-> <<a, b, c>>] :
        s \in {<<16, 0, 0, 0>>, <<255, 255, 255, 255>>},
        a \in EnchantLists, b \in EnchantLists, c \in EnchantLists}
OptionValues ==
    {[Cost |-> c, Enchantments |-> e, Name |-> n, RecipeNetworkID |-> 300] :
        c \in {0, 1}, e \in EnchantValues, n \in {<<>>, <<97>>}}
DirtyOption ==
    [Cost |-> 7, Enchantments |-> [Slot |-> <<1, 0, 0, 0>>,
                                   Enchantments |-> <<Slice(<<ZeroEnchant>>), NilSlice, NilSlice>>],
     Name |-> <<110>>, RecipeNetworkID |-> 9]
OptionInputs ==
    UNION {Prefixes(c \o e \o n \o <<7>>) :
               c \in {<<5>>, Times(5, 128) \o <<1>>},
               e \in {<<16, 0, 0, 0, 0, 1, 5, 2, 0>>, <<16, 0, 0, 0, 0, 0, 0>>},
               n \in {<<1, 97>>, <<3, 97>>}}

InitOption ==
    /\ codec = "option"
    /\ \/ src \in OptionInputs /\ x \in {ZeroOption, DirtyOption}
       \/ src = <<>> /\ x \in OptionValues

\* The skins handed to WriteSerialisedSkin: 0x0, 1x1 with its four bytes,
\* 1x1 and 2^30 x 1 with no bytes, and a skin with a 2^30 x 1 cape.
SkinValues ==
    {ZeroSkin, DirtySkin,
     [ZeroSkin EXCEPT !.SkinImageWidth = U32(1), !.SkinImageHeight = U32(1)],
     [ZeroSkin EXCEPT !.SkinImageWidth = <<0, 0, 0, 64>>, !.SkinImageHeight = U32(1)],
     [DirtySkin EXCEPT !.CapeImageWidth = <<0, 0, 0, 64>>, !.CapeImageHeight = U32(1)]}

InitSkin ==
    /\ codec = "skin"
    /\ \/ src \in SkinInputs /\ x \in PriorSkins
       \/ src = <<>> /\ x \in SkinValues

InitEnchants ==
    /\ codec = "enchants"
    /\ \/ src \in EnchantInputs /\ x \in PriorEnchantments
       \/ src = <<>> /\ x \in EnchantValues

InitCreative == codec = "creative" /\ src \in CreativeInputs /\ x \in PriorPackets

\* The inputs of ActorEvent.Unmarshal: every prefix of a runtime ID, ended
\* or not, an event type and event data.
ActorEventInputs ==
    UNION {Prefixes(id \o <<9>> \o d) :
               id \in {<<5>>, <<130, 1>>, Unending}, d \in {<<4>>, <<129, 2>>}}
DirtyActorEvent == [EntityRuntimeID |-> <<7>>, EventType |-> 3, EventData |-> -1]

InitActorEvent ==
    /\ codec = "actorevent"
    /\ src \in ActorEventInputs
    /\ x \in {ZeroActorEvent, DirtyActorEvent}

InitLinks ==
    /\ codec = "links"
    /\ \/ src \in LinkInputs /\ x \in PriorLinks
       \/ src = <<>> /\ x \in LinkValues

InitItem ==
    /\ codec = "item"
    /\ \/ src \in ItemInputs /\ x \in PriorValues
       \/ src = <<>> /\ x \in ItemValues \cup OversizedItems

Init ==
    /\ InitItem \/ InitLinks \/ InitLink \/ InitSkin \/ InitEnchants \/ InitOption
       \/ InitCreative \/ InitActorEvent
    /\ dst = <<>>
    /\ err = "nil"
    /\ hist = <<>>
    /\ pre = [src |-> src, dst |-> dst, x |-> x]
    /\ log = <<>>
    /\ alloc = <<>>
    /\ RegistryLoaded

Readers ==
    {"Item", "RecipeIngredient", "EntityLinks", "EntityLinkAction", "SerialisedSkin",
     "ItemEnchants", "EnchantOption", "CreativeContent.Unmarshal",
     "ActorEvent.Unmarshal"}
Writers ==
    {"WriteItem", "WriteRecipeIngredient", "WriteEntityLinks", "WriteEntityLinkAction",
     "WriteItemEnchants", "WriteEnchantOption", "WriteSerialisedSkin"}

LastOp == IF hist = <<>> THEN "none" ELSE hist[Len(hist)].op

\* A reader runs on a buffer just received, or on the bytes just handed over.
\* `writer` is the writer whose bytes the reader is meant for.
MayRead(writer) ==
    /\ Len(hist) < MaxCalls
    /\ \/ hist = <<>>
       \/ LastOp = "Rewind" /\ hist[Len(hist) - 1].op = writer

\* A writer runs on a fresh value, or on one the matching reader just decoded.
MayWrite(reader) ==
    /\ Len(hist) < MaxCalls
    /\ \/ hist = <<>> /\ src = <<>>
       \/ LastOp = reader /\ err = "nil"

Called(op, R(_, _)) ==
    \E r \in {R(src, x)} :
    /\ src' = r.rest
    /\ x' = r.x
    /\ err' = r.err
    /\ log' = r.log
    /\ alloc' = r.alloc
    /\ hist' = Append(hist, [op |-> op, err |-> r.err,
                             wire |-> Take(src, Len(src) - Len(r.rest))])
    /\ pre' = [src |-> src, dst |-> dst, x |-> x]
    /\ UNCHANGED <<codec, dst, registryVars>>

Wrote(op, W(_)) ==
    \E bytes \in {W(x)} :
    /\ dst' = dst \o bytes
    /\ err' = "nil"
    /\ log' = <<>>
    /\ alloc' = <<>>
    /\ hist' = Append(hist, [op |-> op, err |-> "nil", wire |-> bytes])
    /\ pre' = [src |-> src, dst |-> dst, x |-> x]
    /\ UNCHANGED <<codec, src, x, registryVars>>

CallItem == codec = "item" /\ MayRead("WriteItem") /\ Called("Item", Item)

\* The buffers of a run hold the bytes of block lists of at most MaxBlocks
\* strings; what WriteItem emits for a longer list is WriteItem(x).
CallWriteItem ==
    /\ codec = "item"
    /\ MayWrite("Item")
    /\ x.CanBePlacedOn.len <= MaxBlocks
    /\ x.CanBreak.len <= MaxBlocks
    /\ Wrote("WriteItem", WriteItem)

CallRecipeIngredient ==
    codec = "item" /\ MayRead("WriteRecipeIngredient") /\ Called("RecipeIngredient", RecipeIngredient)

CallWriteRecipeIngredient ==
    codec = "item" /\ MayWrite("RecipeIngredient") /\ Wrote("WriteRecipeIngredient", WriteRecipeIngredient)

CallEntityLinks ==
    codec = "links" /\ MayRead("WriteEntityLinks") /\ Called("EntityLinks", EntityLinks)

CallWriteEntityLinks ==
    codec = "links" /\ MayWrite("EntityLinks")
    /\ Wrote("WriteEntityLinks", WriteEntityLinks)

CallSerialisedSkin ==
    /\ codec = "skin"
    /\ MayRead("WriteSerialisedSkin")
    /\ Called("SerialisedSkin", SerialisedSkin)

\* WriteSerialisedSkin either panics, leaving the buffer as it was and
\* ending the run, or appends the bytes of the skin.
CallWriteSerialisedSkin ==
    /\ codec = "skin"
    /\ MayWrite("SerialisedSkin")
    /\ \E w \in {WriteSerialisedSkin(x)} :
           /\ dst' = dst \o w.bytes
           /\ err' = w.err
           /\ hist' = Append(hist, [op |-> "WriteSerialisedSkin", err |-> w.err,
                                    wire |-> w.bytes])
    /\ log' = <<>>
    /\ alloc' = <<>>
    /\ pre' = [src |-> src, dst |-> dst, x |-> x]
    /\ UNCHANGED <<codec, src, x, registryVars>>

CallEntityLinkAction ==
    /\ codec = "link"
    /\ MayRead("WriteEntityLinkAction")
    /\ Called("EntityLinkAction", EntityLinkAction)

CallWriteEntityLinkAction ==
    /\ codec = "link"
    /\ MayWrite("EntityLinkAction")
    /\ Wrote("WriteEntityLinkAction", WriteEntityLinkAction)

CallItemEnchants ==
    codec = "enchants" /\ MayRead("WriteItemEnchants") /\ Called("ItemEnchants", ItemEnchants)

CallWriteItemEnchants ==
    /\ codec = "enchants"
    /\ MayWrite("ItemEnchants")
    /\ Wrote("WriteItemEnchants", WriteItemEnchants)

CallEnchantOption ==
    codec = "option" /\ MayRead("WriteEnchantOption") /\ Called("EnchantOption", EnchantOption)

CallWriteEnchantOption ==
    /\ codec = "option"
    /\ MayWrite("EnchantOption")
    /\ Wrote("WriteEnchantOption", WriteEnchantOption)

CallCreativeContentUnmarshal ==
    /\ codec = "creative"
    /\ hist = <<>>
    /\ Called("CreativeContent.Unmarshal", CreativeContentUnmarshal)

CallActorEventUnmarshal ==
    /\ codec = "actorevent"
    /\ hist = <<>>
    /\ Called("ActorEvent.Unmarshal", ActorEventUnmarshal)

\* The bytes that may follow a value in the buffer a reader is given.
Trailing == {<<>>, <<2>>, <<129, 0, 7>>}

\* The bytes written are handed to a reader: the peer receives them, with
\* whatever follows them in its buffer.
Rewind ==
    /\ Len(hist) < MaxCalls
    /\ LastOp \in Writers
    /\ err = "nil"
    /\ \E t \in Trailing : src' = dst \o t
    /\ dst' = <<>>
    /\ hist' = Append(hist, [op |-> "Rewind", err |-> "nil", wire |-> dst])
    /\ pre' = [src |-> src, dst |-> dst, x |-> x]
    /\ UNCHANGED <<codec, x, err, log, alloc, registryVars>>

Next ==
    \/ CallItem
    \/ CallWriteItem
    \/ CallRecipeIngredient
    \/ CallWriteRecipeIngredient
    \/ CallEntityLinks
    \/ CallWriteEntityLinks
    \/ CallSerialisedSkin
    \/ CallWriteSerialisedSkin
    \/ CallEntityLinkAction
    \/ CallWriteEntityLinkAction
    \/ CallItemEnchants
    \/ CallWriteItemEnchants
    \/ CallEnchantOption
    \/ CallWriteEnchantOption
    \/ CallCreativeContentUnmarshal
    \/ CallActorEventUnmarshal
    \/ Rewind

Spec == Init /\ [][Next]_vars

-----------------------------------------------------------------------------
(* Properties of the item stack codec.                                     *)

\* The last call was reader r, run on exactly the bytes writer w emitted
\* for the value the caller held (pre.x is that value).
RoundTripped(w, r) ==
    /\ Len(hist) >= 3
    /\ hist[Len(hist)].op = r
    /\ hist[Len(hist) - 1].op = "Rewind"
    /\ hist[Len(hist) - 2].op = w
    /\ pre.src = hist[Len(hist) - 2].wire

\* The last call was writer w, run on the value reader r had just decoded
\* with success; the bytes r consumed are hist[Len(hist) - 1].wire.
ReEncoded(r, w) ==
    /\ Len(hist) >= 2
    /\ hist[Len(hist)].op = w
    /\ hist[Len(hist) - 1].op = r
    /\ hist[Len(hist) - 1].err = "nil"

\* C1: an item stack with a non-zero network ID, any int16 metadata and
\* count, no NBT and two block lists survives WriteItem followed by Item:
\* the read succeeds and yields an equal stack.
C1_ItemRoundTrip ==
    (RoundTripped("WriteItem", "Item") /\ pre.x.NetworkID # 0 /\ pre.x.NBTData = <<>>)
        => (err = "nil" /\ x = pre.x)

\* The aux value WriteItem emitted for the stack it last wrote.
WrittenAux ==
    Varint32(Drop(hist[Len(hist)].wire, Len(WriteVarint32(x.NetworkID)))).val

\* C2: WriteItem emits, as the aux varint of a non-air stack, the value
\* (metadata << 8) | (count & 0xFF) with no metadata bit lost and only the
\* low 8 bits of count; Item splits it as aux >> 8 and aux & 0xFF.
C2_AuxPacking ==
    (LastOp = "WriteItem" /\ x.NetworkID # 0)
        => /\ WrittenAux = x.MetadataValue * 256 + (x.Count % 256)
           /\ AuxMetadata(WrittenAux) = x.MetadataValue
           /\ AuxCount(WrittenAux) = x.Count % 256

\* C4: a reader that performed a primitive read that failed returns an
\* error.
C4_FailedReadIsReported ==
    (LastOp \in Readers /\ \E i \in DOMAIN log : log[i].e # "nil") => err # "nil"

\* C7: a negative can-be-placed-on or can-break length read by Item, and a
\* negative count read by RecipeIngredient, make the call return a
\* NegativeCountError, and that length is the last thing the call reads.
C7_NegativeLength ==
    LastOp \in {"Item", "RecipeIngredient"} =>
        \A i \in DOMAIN log :
            (/\ log[i].f \in {"count(CanBePlacedOn)", "count(CanBreak)", "count"}
             /\ log[i].e = "nil"
             /\ log[i].v < 0)
                => (err = "NegativeCount" /\ i = Len(log))

C7_Witness ==
    /\ LastOp = "Item"
    /\ err = "NegativeCount"
    /\ log[Len(log)].f = "count(CanBreak)"
    /\ log[Len(log)].v = -1
    /\ src # <<>>

C7_WitnessIngredient ==
    /\ LastOp = "RecipeIngredient"
    /\ err = "NegativeCount"
    /\ log[Len(log)].f = "count"

\* C8: for network ID 0 the writers emit the single byte 0; on input that
\* starts with a 0 byte the readers consume one byte and leave metadata,
\* count, NBT and both block lists zero or empty, whatever x held before.
C8_EmptySentinel ==
    /\ (LastOp \in {"WriteItem", "WriteRecipeIngredient"} /\ x.NetworkID = 0)
           => hist[Len(hist)].wire = <<0>>
    /\ (LastOp \in {"Item", "RecipeIngredient"} /\ pre.src # <<>> /\ Head(pre.src) = 0)
           => /\ err = "nil"
              /\ src = Tail(pre.src)
              /\ x = ZeroItem

\* A declared block list length that Item accepts.
BlockCountOK(n) == n >= 0 /\ n <= higherLimit

\* The reads of the last call made for field f.
ReadsOf(f) == {i \in DOMAIN log : log[i].f = f}

\* The last Item call read the can-break list to its end.
CanBreakRead ==
    \E i \in ReadsOf("count(CanBreak)") :
        /\ log[i].e = "nil"
        /\ BlockCountOK(log[i].v)
        /\ Cardinality({j \in ReadsOf("CanBreak[i]") : log[j].e = "nil"}) = log[i].v

\* C9: once can-break is read, Item reads one further varint64 exactly when
\* the network ID is 513, and nothing after it; WriteItem emits one
\* trailing varint64 after the can-break list exactly when the ID is 513.
C9_ShieldSentinel ==
    /\ LastOp = "Item" =>
           /\ ReadsOf("blockingTick") # {} <=> (CanBreakRead /\ x.NetworkID = 513)
           /\ ReadsOf("blockingTick") \subseteq {Len(log)}
           /\ (CanBreakRead /\ x.NetworkID # 513)
                  => (err = "nil" /\ log[Len(log)].f \in {"count(CanBreak)", "CanBreak[i]"})
    /\ (LastOp = "WriteItem" /\ x.NetworkID # 0) =>
           LET body == ItemThroughCanBreak(hist[Len(hist)].wire, ZeroItem)
           IN  /\ body.err = "nil"
               /\ IF x.NetworkID = 513
                  THEN body.rest # <<>> /\ Varint64(body.rest).err = "nil"
                       /\ Varint64(body.rest).rest = <<>>
                  ELSE body.rest = <<>>

C9_Witness ==
    /\ LastOp = "Item"
    /\ err = "nil"
    /\ x.NetworkID = 513
    /\ log[Len(log)].f = "blockingTick"
    /\ log[Len(log)].v # 0

C9_WitnessOther ==
    /\ LastOp = "Item"
    /\ err = "nil"
    /\ x.NetworkID \notin {0, 513}
    /\ src # <<>>

\* The NBT marker of the bytes b of an item stack is 0.
MarkerZero(b) ==
    \E i \in DOMAIN Item(b, ZeroItem).log :
        /\ Item(b, ZeroItem).log[i].f = "legacyNBTLength"
        /\ Item(b, ZeroItem).log[i].v = <<0, 0>>

\* C10: bytes b with NBT marker 0 that Item decodes with success, consuming
\* all of b, are reproduced by WriteItem of the decoded stack.
C10_WireStability ==
    (/\ ReEncoded("Item", "WriteItem")
     /\ src = <<>>
     /\ MarkerZero(hist[Len(hist) - 1].wire))
        => hist[Len(hist)].wire = hist[Len(hist) - 1].wire

\* The bytes the first i reads of the last call consumed.
RECURSIVE Consumed(_)
Consumed(i) == IF i = 0 THEN 0 ELSE log[i].n + Consumed(i - 1)

\* Read i of the last call returned a length above the limit, and the call
\* stopped there: a LimitHitError, nothing read after the length, and no
\* make() of that length.
GuardedAt(i, limit) ==
    /\ err = "LimitHit"
    /\ i = Len(log)
    /\ src = Drop(pre.src, Consumed(i))
    /\ \A j \in DOMAIN alloc : alloc[j] <= limit

\* C5: a can-be-placed-on or can-break length above higherLimit read by
\* Item, and a count above lowerLimit read by EntityLinks, make the call
\* return a LimitHitError without consuming a byte after the length prefix
\* and without allocating the sequence.
C5_LengthGuard ==
    /\ LastOp = "Item" =>
           \A i \in DOMAIN log :
               (/\ log[i].f \in {"count(CanBePlacedOn)", "count(CanBreak)"}
                /\ log[i].e = "nil"
                /\ log[i].v > higherLimit) => GuardedAt(i, higherLimit)
    /\ LastOp = "EntityLinks" =>
           \A i \in DOMAIN log :
               (log[i].f = "count" /\ log[i].e = "nil" /\ log[i].v > lowerLimit)
                   => (GuardedAt(i, lowerLimit) /\ x = pre.x)

C5_Witness ==
    /\ LastOp = "Item"
    /\ err = "LimitHit"
    /\ log[Len(log)].f = "count(CanBePlacedOn)"
    /\ log[Len(log)].v = higherLimit + 1
    /\ src # <<>>

C5_WitnessLinks ==
    /\ LastOp = "EntityLinks"
    /\ err = "LimitHit"
    /\ log[Len(log)].v = lowerLimit + 1
    /\ src # <<>>

-----------------------------------------------------------------------------
(* Properties of the skin, enchantment and creative content decoders.      *)

\* The pixel bytes are exactly 4 * width * height many, as integers.
ExactSize(width, height, data) ==
    LimbsEqual(ExactMul(ExactMul(height, width), <<4>>), Len(data))

\* C3: a Skin that SerialisedSkin returns without error has, as exact
\* integer equalities, len(SkinData) = 4 * width * height, the same for the
\* cape, and the same for every animation.
C3_SkinSizeExact ==
    (LastOp = "SerialisedSkin" /\ err = "nil") =>
        /\ ExactSize(x.SkinImageWidth, x.SkinImageHeight, x.SkinData)
        /\ ExactSize(x.CapeImageWidth, x.CapeImageHeight, x.CapeData)
        /\ \A i \in DOMAIN x.Animations.elems :
               ExactSize(x.Animations.elems[i].ImageWidth,
                         x.Animations.elems[i].ImageHeight,
                         x.Animations.elems[i].ImageData)

\* C6: CreativeContent.Unmarshal, SerialisedSkin (with SkinPieceTint) and
\* ItemEnchants compare every declared length against a limit before they
\* allocate: no call makes a sequence longer than the largest limit.
C6_EveryLengthChecked ==
    LastOp \in {"CreativeContent.Unmarshal", "SerialisedSkin", "ItemEnchants"} =>
        \A j \in DOMAIN alloc : alloc[j] <= higherLimit


-----------------------------------------------------------------------------
(* Reads against writes.                                                   *)

\* The last call was reader r, run on the bytes writer w emitted for the
\* value the caller held followed by the bytes that came after them.
ReadBack(w, r) ==
    /\ Len(hist) >= 3
    /\ hist[Len(hist)].op = r
    /\ hist[Len(hist) - 1].op = "Rewind"
    /\ hist[Len(hist) - 2].op = w
    /\ Take(pre.src, Len(hist[Len(hist) - 2].wire)) = hist[Len(hist) - 2].wire

\* The last call consumed the bytes the writer emitted and no other.
ExactlyConsumed == src = Drop(pre.src, Len(hist[Len(hist) - 2].wire))

WriterAndReader ==
    {<<"WriteItem", "Item">>, <<"WriteRecipeIngredient", "RecipeIngredient">>,
     <<"WriteEntityLinkAction", "EntityLinkAction">>,
     <<"WriteItemEnchants", "ItemEnchants">>, <<"WriteEnchantOption", "EnchantOption">>}

\* The caller holds an item stack without NBT that it has not written yet.
HoldsItem == codec = "item" /\ hist = <<>> /\ src = <<>> /\ x.NBTData = <<>>

\* Item, run on what WriteItem emits for v followed by any trailing bytes,
\* leaves the trailing bytes.
ItemConsumesWritten(v) ==
    \A t \in Trailing : Item(WriteItem(v) \o t, ZeroItem).rest = t

\* C11 (as amended): for every value written by WriteItem (without NBT, both
\* block lists of at most higherLimit strings), WriteRecipeIngredient,
\* WriteEntityLinkAction, WriteItemEnchants and WriteEnchantOption, the
\* matching reader run on the written bytes followed by trailing bytes
\* consumes exactly the written bytes and leaves the trailing bytes.
C11_ExactConsumption ==
    /\ \A p \in WriterAndReader : ReadBack(p[1], p[2]) => ExactlyConsumed
    /\ (/\ HoldsItem
        /\ BlockCountOK(x.CanBePlacedOn.len)
        /\ BlockCountOK(x.CanBreak.len))
           => ItemConsumesWritten(x)

C11_Witness ==
    /\ ReadBack("WriteItem", "Item")
    /\ pre.x.NetworkID \notin {0, shieldID}
    /\ pre.x.CanBePlacedOn.len > 0
    /\ pre.x.CanBreak.len > 0
    /\ Len(pre.src) = Len(hist[Len(hist) - 2].wire) + 3
    /\ src = <<129, 0, 7>>

C11_WitnessOption ==
    /\ ReadBack("WriteEnchantOption", "EnchantOption")
    /\ pre.x.Enchantments.Enchantments[2].len > 0
    /\ pre.x.Name # <<>>
    /\ err = "nil"
    /\ src = <<2>>

\* C11 as stated: the same for every value WriteItem accepts, whatever the
\* lengths of its block lists.
C11_EveryAcceptedValue ==
    /\ \A p \in WriterAndReader : ReadBack(p[1], p[2]) => ExactlyConsumed
    /\ HoldsItem => ItemConsumesWritten(x)

-----------------------------------------------------------------------------
(* Errors of composite readers.                                            *)

\* The composite readers that return the result of chainErr over their
\* field reads.
ChainReaders ==
    {"EntityLinkAction", "SerialisedSkin", "EnchantOption", "ActorEvent.Unmarshal"}

\* C16: in a composite reader built from a chain of field reads, once the
\* read of a field has failed no later read takes effect: none consumes a
\* byte and none succeeds, so the cursor stays where the failed read left
\* it and no later field of the output is assigned.
C16_ShortCircuit ==
    LastOp \in ChainReaders =>
        \A i \in DOMAIN log : \A j \in DOMAIN log :
            (i < j /\ log[i].e # "nil") => (log[j].n = 0 /\ log[j].e # "nil")

\* Read i of the last call is the NBT marker of an item stack.
MarkerAt(i) == log[i].f = "legacyNBTLength" /\ log[i].e = "nil"

\* After the NBT part Item goes on to the can-be-placed-on length.
GoesOnAfter(i) == i < Len(log) /\ log[i + 1].f = "count(CanBePlacedOn)"

\* C18 (as amended): Item accepts the marker 0 (no NBT), the marker -1
\* (then a count byte that must be 1, then one compound read from the
\* buffer) and every positive marker N (the next N bytes, or what is left
\* of the buffer when that is less, decoded as one compound); every
\* negative marker other than -1 makes Item return an error at the marker.
C18_MarkerDispatch ==
    LastOp = "Item" =>
        \A i \in DOMAIN log :
            MarkerAt(i) =>
                /\ Int16LE(log[i].v) = 0 => GoesOnAfter(i)
                /\ Int16LE(log[i].v) = -1 =>
                       /\ i < Len(log)
                       /\ log[i + 1].f = "nbtCount"
                       /\ (log[i + 1].e = "nil" /\ log[i + 1].v # <<1>>)
                              => (err # "nil" /\ Len(log) = i + 1)
                       /\ (log[i + 1].e = "nil" /\ log[i + 1].v = <<1>>)
                              => (/\ Len(log) > i + 1
                                  /\ log[i + 2].f = "NBTData"
                                  /\ log[i + 2].e = "nil" => GoesOnAfter(i + 2))
                /\ Int16LE(log[i].v) < -1 => (err # "nil" /\ Len(log) = i)
                /\ Int16LE(log[i].v) > 0 =>
                       /\ i < Len(log)
                       /\ log[i + 1].f = "NBTData"
                       /\ log[i + 1].n <= Int16LE(log[i].v)
                       /\ log[i + 1].e = "nil" => GoesOnAfter(i + 1)

C18_Witness ==
    /\ LastOp = "Item"
    /\ err = "nil"
    /\ \E i \in DOMAIN log : MarkerAt(i) /\ Int16LE(log[i].v) = 4

C18_WitnessNegative ==
    /\ LastOp = "Item"
    /\ err # "nil"
    /\ MarkerAt(Len(log))
    /\ Int16LE(log[Len(log)].v) = -2
    /\ src # <<>>

\* C18 as stated: every marker other than 0 and -1 makes Item return an
\* error, and -1 must be followed by a byte equal to 1.
C18_OnlyZeroAndMinusOne ==
    LastOp = "Item" =>
        \A i \in DOMAIN log :
            MarkerAt(i) =>
                /\ Int16LE(log[i].v) \notin {0, -1} => err # "nil"
                /\ (/\ Int16LE(log[i].v) = -1
                    /\ i < Len(log)
                    /\ log[i + 1].e = "nil"
                    /\ log[i + 1].v # <<1>>) => err # "nil"

\* The bytes left in the buffer after read i of the last call.
LeftAfter(i) == Len(pre.src) - Consumed(i)

\* Read i of the last Item call is a positive NBT marker.
LegacyMarkerAt(i) == MarkerAt(i) /\ Int16LE(log[i].v) > 0

\* C21: after a positive NBT marker N Item takes exactly the next N bytes as
\* the compound: with fewer than N bytes left it returns an error without
\* decoding the shorter slice, and when the compound decodes the cursor is
\* N bytes past the marker when the can-be-placed-on length is read.
C21_LegacyExactSlice ==
    LastOp = "Item" =>
        \A i \in DOMAIN log :
            LegacyMarkerAt(i) =>
                /\ i < Len(log)
                /\ log[i + 1].f = "NBTData"
                /\ LeftAfter(i) < Int16LE(log[i].v) =>
                       (err # "nil" /\ log[i + 1].e # "nil")
                /\ log[i + 1].e = "nil" =>
                       (log[i + 1].n = Int16LE(log[i].v) /\ GoesOnAfter(i + 1))

\* The zero value of the output of reader op.
ZeroOutput(op) ==
    CASE op = "Item" -> ZeroItem
      [] op = "EntityLinks" -> NilSlice
      [] op = "ItemEnchants" -> ZeroEnchantments
      [] op = "SerialisedSkin" -> ZeroSkin

\* The output value holds nothing read by the last call: it is as it was
\* before the call (but for the NBT map Item makes afresh on entry), or it
\* is the zero value.
NothingAssigned ==
    \/ x = pre.x
    \/ x = ZeroOutput(LastOp)
    \/ LastOp = "Item" /\ x = [pre.x EXCEPT !.NBTData = <<>>]

\* C19: when Item, EntityLinks, ItemEnchants or SerialisedSkin returns an
\* error, the output value holds no field assigned from the input.
C19_NoPartialOutput ==
    (LastOp \in {"Item", "EntityLinks", "ItemEnchants", "SerialisedSkin"} /\ err # "nil")
        => NothingAssigned

\* The bytes of a link, read field by field in the order claimed.
RiddenOf(wire) == Varint64(wire)
RiderOf(wire) == Varint64(RiddenOf(wire).rest)
FlagsOf(wire) == RiderOf(wire).rest

LinkFields ==
    <<"RiddenEntityUniqueID", "RiderEntityUniqueID", "Type", "Immediate", "RiderInitiated">>

C20_WitnessAction ==
    /\ LastOp = "WriteEntityLinkAction"
    /\ hist[Len(hist)].wire = <<1, 4, 1, 0, 1>>

\* C23: an ingredient with a network ID other than 0, written by
\* WriteRecipeIngredient and read by RecipeIngredient, is read with success
\* and with the network ID, the metadata and the count it was written with.
C23_IngredientRoundTrip ==
    (ReadBack("WriteRecipeIngredient", "RecipeIngredient") /\ pre.x.NetworkID # 0) =>
        /\ err = "nil"
        /\ x.NetworkID = pre.x.NetworkID
        /\ x.MetadataValue = pre.x.MetadataValue
        /\ x.Count = pre.x.Count

\* The reads of the last call logged under field f that followed a length
\* read logged under c, and the lengths declared under c.
ElementReads(f) == Cardinality(ReadsOf(f))
Declared(c) == {log[i].v : i \in {j \in ReadsOf(c) : log[j].e = "nil"}}

\* The element reads of a list stay within the declared length, and the
\* declared length of a list with an element read is within the limit.
WithinLimit(c, f, limit) ==
    ElementReads(f) > 0 =>
        \E n \in Declared(c) : ElementReads(f) <= n /\ n <= limit

\* The cursor after the last call is a position of the buffer it was given.
CursorInBuffer ==
    /\ Len(src) <= Len(pre.src)
    /\ src = Drop(pre.src, Len(pre.src) - Len(src))

\* C24: every call of Item and of EntityLinks returns, with nil or with an
\* error, after at most higherLimit (lowerLimit) element reads per list and
\* with the cursor at a position of the buffer it was given.
C24_Totality ==
    /\ LastOp = "Item" =>
           /\ CursorInBuffer
           /\ WithinLimit("count(CanBePlacedOn)", "CanBePlacedOn[i]", higherLimit)
           /\ WithinLimit("count(CanBreak)", "CanBreak[i]", higherLimit)
    /\ LastOp = "EntityLinks" =>
           /\ CursorInBuffer
           /\ WithinLimit("count", "RiddenEntityUniqueID", lowerLimit)

C24_Witness ==
    /\ LastOp = "EntityLinks"
    /\ err # "nil"
    /\ Declared("count") = {lowerLimit}
    /\ ElementReads("RiddenEntityUniqueID") = 2
    /\ src = <<>>

C24_WitnessItem ==
    /\ LastOp = "Item"
    /\ err # "nil"
    /\ Declared("count(CanBePlacedOn)") = {higherLimit}
    /\ ElementReads("CanBePlacedOn[i]") = 2

\* The value the last call read under field f (read once, with success).
ValueRead(f) == CHOOSE v \in Declared(f) : TRUE

\* The list holds as many strings as were declared under c, within the limit.
ListAsDeclared(list, c) ==
    /\ Declared(c) = {list.len}
    /\ Len(list.elems) = list.len
    /\ list.len \in 0..higherLimit

\* C25: when Item returns nil for a stack that is not air, the count is in
\* 0..255, the metadata is the low 16 bits of the aux value shifted right
\* by 8, and both block lists hold as many strings as their lengths
\* declared, between 0 and higherLimit.
C25_DecodedStack ==
    (LastOp = "Item" /\ err = "nil" /\ x.NetworkID # 0) =>
        /\ x.Count \in 0..255
        /\ x.Count = ValueRead("auxValue") % 256
        /\ x.MetadataValue \in -32768..32767
        /\ (x.MetadataValue - (ValueRead("auxValue") \div 256)) % 65536 = 0
        /\ ListAsDeclared(x.CanBePlacedOn, "count(CanBePlacedOn)")
        /\ ListAsDeclared(x.CanBreak, "count(CanBreak)")

C25_Witness ==
    /\ LastOp = "Item"
    /\ err = "nil"
    /\ Declared("auxValue") = {8388609}
    /\ x.MetadataValue = -32768
    /\ x.Count = 1
    /\ x.CanBePlacedOn.len = 1

C25_WitnessNegativeAux ==
    /\ LastOp = "Item"
    /\ err = "nil"
    /\ Declared("auxValue") = {-1}
    /\ x.MetadataValue = -1
    /\ x.Count = 255

\* What is left of b after k buckets, each a varuint32 length and two bytes
\* for each enchantment (<<-1>> when b does not hold k buckets).
RECURSIVE AfterBuckets(_, _)
AfterBuckets(b, k) ==
    IF k = 0 THEN b
    ELSE Bind(Varuint32(b), LAMBDA l :
             IF l.err # "nil" \/ Len(l.rest) < 2 * l.val THEN <<-1>>
             ELSE AfterBuckets(Drop(l.rest, 2 * l.val), k - 1))

\* The enchantments of the three buckets of v, in order.
AllEnchants(v) ==
    Elements(v.Enchantments[1], ZeroEnchant) \o Elements(v.Enchantments[2], ZeroEnchant)
    \o Elements(v.Enchantments[3], ZeroEnchant)

\* The lengths, types and levels the last call read, in order.
ValuesRead(f) == SelectSeq(log, LAMBDA r : r.f = f)

\* C26: WriteItemEnchants emits the four bytes of the slot and then exactly
\* three buckets, each a varuint32 length and its enchantments, an empty
\* bucket being the one byte 0; a successful ItemEnchants reads three
\* lengths and leaves in each bucket of the output as many enchantments as
\* its length declared, each as read; and enchantments written and read
\* back come out with the same slot and the same three sequences.
C26_ThreeBuckets ==
    /\ LastOp = "WriteItemEnchants" =>
           /\ Take(hist[Len(hist)].wire, 4) = x.Slot
           /\ AfterBuckets(Drop(hist[Len(hist)].wire, 4), 3) = <<>>
           /\ Len(hist[Len(hist)].wire) = 4 + 3 + 2 * Len(AllEnchants(x))
           /\ AllEnchants(x) = <<>> => Drop(hist[Len(hist)].wire, 4) = <<0, 0, 0>>
    /\ (LastOp = "ItemEnchants" /\ err = "nil") =>
           /\ Len(ValuesRead("l")) = 3
           /\ \A i \in 1..3 :
                  /\ x.Enchantments[i].len = ValuesRead("l")[i].v
                  /\ Len(x.Enchantments[i].elems) = x.Enchantments[i].len
           /\ [i \in DOMAIN AllEnchants(x) |-> <<AllEnchants(x)[i].Type>>]
                  = [i \in DOMAIN ValuesRead("Type") |-> ValuesRead("Type")[i].v]
           /\ [i \in DOMAIN AllEnchants(x) |-> <<AllEnchants(x)[i].Level>>]
                  = [i \in DOMAIN ValuesRead("Level") |-> ValuesRead("Level")[i].v]
    /\ ReadBack("WriteItemEnchants", "ItemEnchants") =>
           /\ err = "nil"
           /\ x.Slot = pre.x.Slot
           /\ \A i \in 1..3 :
                  Elements(x.Enchantments[i], ZeroEnchant)
                      = Elements(pre.x.Enchantments[i], ZeroEnchant)

C26_Witness ==
    /\ ReadBack("WriteItemEnchants", "ItemEnchants")
    /\ hist[Len(hist) - 2].wire = <<16, 0, 0, 0, 0, 1, 9, 1, 0>>
    /\ err = "nil"
    /\ x.Enchantments[2].elems = <<[Type |-> 9, Level |-> 1]>>
    /\ x.Enchantments[1].len = 0

C26_WitnessReplaced ==
    /\ LastOp = "ItemEnchants"
    /\ err = "nil"
    /\ pre.x.Enchantments[1].len = 1
    /\ x.Enchantments[1].len = 0
    /\ x.Enchantments[3].len = 2

\* The size invariant of a skin: the skin image, the cape image and every
\* animation image hold exactly 4 * width * height bytes.
SizeInvariant(skin) ==
    /\ ExactSize(skin.SkinImageWidth, skin.SkinImageHeight, skin.SkinData)
    /\ ExactSize(skin.CapeImageWidth, skin.CapeImageHeight, skin.CapeData)
    /\ \A i \in DOMAIN skin.Animations.elems :
           ExactSize(skin.Animations.elems[i].ImageWidth,
                     skin.Animations.elems[i].ImageHeight,
                     skin.Animations.elems[i].ImageData)

\* C17: WriteSerialisedSkin called with a skin that violates the size
\* invariant panics and leaves the destination buffer as it was;
\* SerialisedSkin, having decoded every field of such a skin, returns an
\* error.
C17_SkinErrorBoundary ==
    /\ (LastOp = "WriteSerialisedSkin" /\ ~SizeInvariant(pre.x))
           => (err = "panic" /\ dst = pre.dst)
    /\ (LastOp = "SerialisedSkin" /\ err \in {"nil", "Invalid"} /\ ~SizeInvariant(x))
           => err = "Invalid"

-----------------------------------------------------------------------------
(* Properties of the packet registry.                                      *)

\* No call on registeredPackets has overlapped another, and none is under
\* way: the Register calls made so far form a sequence.
Sequential == fault = "none" /\ \A c \in Callers : ~Writing(c)

\* What pool i should hold for ID id, given the registrations made when it
\* was returned.
Expected(i, id) ==
    IF id \in DOMAIN pools[i].registered
    THEN [type |-> Constructors[pools[i].registered[id]], ctor |-> pools[i].registered[id]]
    ELSE [type |-> Builtin[id], ctor |-> "literal"]

\* C12: after any sequence of Register calls the map holds, for every ID
\* registered, the constructor of the last call made for it (so a repeated
\* call changes nothing), and a pool returned by NewPool holds for every
\* registered ID a packet made by that constructor, also when the ID is
\* built in, and for every other ID its built-in packet.
C12_LastWriterWins ==
    /\ Sequential => registeredPackets = Latest(calls)
    /\ \A i \in DOMAIN pools :
           ~pools[i].raced =>
               /\ DOMAIN pools[i].p = BuiltinIDs \cup DOMAIN pools[i].registered
               /\ \A id \in DOMAIN pools[i].p :
                      /\ pools[i].p[id].type = Expected(i, id).type
                      /\ pools[i].p[id].ctor = Expected(i, id).ctor

C12_Witness ==
    /\ fault = "none"
    /\ calls = <<<<"IDCustom", "NewCustom">>, <<"IDCustom", "NewCustomLogin">>>>
    /\ Len(pools) = 2
    /\ "IDCustom" \in DOMAIN pools[1].p
    /\ pools[1].p["IDCustom"].ctor = "NewCustom"
    /\ pools[2].p["IDCustom"].ctor = "NewCustomLogin"
    /\ pools[2].p["IDLogin"].ctor = "literal"

C12_WitnessTwice ==
    /\ fault = "none"
    /\ calls = <<<<"IDLogin", "NewCustomLogin">>, <<"IDLogin", "NewCustomLogin">>>>
    /\ Len(pools) = 1
    /\ pools[1].p["IDLogin"].type = "CustomLogin"

\* The types obtainable through PacketsByName, and those of a pool.
TypesByName == {PacketsByName[n] : n \in DOMAIN PacketsByName}
TypesOf(pool) == {pool.p[id].type : id \in DOMAIN pool.p}

\* C13: after package initialisation and any Register calls, the types
\* obtainable through PacketsByName are the types present in NewPool(), and
\* the two maps have as many entries as there are known IDs.
C13_NameMapCoversPool ==
    \A i \in DOMAIN pools :
        /\ TypesByName = TypesOf(pools[i])
        /\ Cardinality(DOMAIN PacketsByName) = Cardinality(DOMAIN pools[i].p)

\* C14: no Register write to registeredPackets overlaps another Register
\* write or the range NewPool makes over the map, and once a pool has been
\* returned to a decoder the map is no longer written.
C14_Serialised ==
    /\ \A c \in Callers, d \in Callers :
           c # d => ~(Writing(c) /\ (Writing(d) \/ Ranging(d)))
    /\ pools # <<>> => \A c \in Callers : ~Writing(c)

BuiltinPools == {i \in DOMAIN pools : pools[i].registered = EmptyMap}

\* C22: in a pool made before any Register call the packet under each
\* built-in ID is of the type whose ID() is that ID; a type has one ID, so
\* the packets under two distinct IDs are of two distinct types.
C22_KeysMatchIDs ==
    \A i \in BuiltinPools :
        /\ DOMAIN pools[i].p = BuiltinIDs
        /\ \A a \in BuiltinIDs, b \in BuiltinIDs :
               a # b => pools[i].p[a].type # pools[i].p[b].type

====
